---- MODULE Spec2Model ----
(***************************************************************************)
(* Model of khannara/next-rbac: the role-inheritance resolver              *)
(* (src/server/inheritance.ts) run over a role store, and the TTL cache of *)
(* BaseAdapter (src/adapters/base.ts).                                     *)
(***************************************************************************)
EXTENDS FiniteSets, Integers, Sequences, TLC

(***************************************************************************)
(* Bounds of the model.                                                    *)
(***************************************************************************)
\* largest value of the maxDepth option a call is made with (0..MaxDepthOpt)
MaxDepthOpt == 2
\* how many times in a row one call is made on the unchanged store
MaxCalls == 2

\* how many times the clock advances
MaxTicks == 1
\* how many times the fetcher is invoked for one key
MaxFetches == 2

\* role names that may be stored and asked for
RoleNames == {"admin", "manager", "user"}
\* the permission arrays a stored role may carry: empty, single, both orders
\* of the same pair, and one with a duplicated entry
PermLists ==
  { <<>>, <<"read">>, <<"read", "write">>, <<"write", "read">>,
    <<"read", "read", "write">> }

(***************************************************************************)
(* Values of the source language.                                          *)
(***************************************************************************)
\* `inherits` left out of a RoleDocument
Undefined == "undefined"
\* what findRole resolves to when the role is not stored
Null == [null |-> TRUE]
\* the messages of the two errors traverse() throws
CircularError == "Circular role inheritance detected"
DepthError == "Role inheritance depth exceeded"
NoError == "none"

\* a stored role document: permissions array and optional parent
RoleDocument == [permissions : PermLists, inherits : RoleNames \cup {Undefined}]

\* every content the role Map of the store can have
RoleStores == UNION {[D -> RoleDocument] : D \in SUBSET RoleNames}

Range(s) == {s[i] : i \in 1..Len(s)}

VARIABLES
  roles,       \* the store: Map from role name to RoleDocument
  call,        \* the resolver call in progress or just completed
  result,      \* what that call returned or threw
  visited,     \* the visited set of the last resolveRolePermissions call
  calls,       \* how many times the call was made in a row
  cacheConfig, \* BaseAdapter.cacheConfig: enabled and ttl as constructed
  cache,       \* BaseAdapter.cache: undefined, or a Map key -> {data, expires}
  now,         \* Date.now(), in milliseconds since construction
  ticks,       \* how many times the clock has advanced
  upstream,    \* what the backing store holds under each key
  fetches,     \* how many times the fetcher was invoked for each key
  procs,       \* the withCache calls: one per caller
  microtasks,  \* the withCache calls whose await has its value, in the order they resume
  adapter,     \* the shipped adapter in use: its kind and its store's schema
  table,       \* the roles the adapter reads: Map from role name to its row
  users,       \* the users the adapter reads: Map from user id to role
  request,     \* the facade or adapter call in progress or just completed
  response,    \* what that call returned or threw
  rbacConfig,  \* RBACMiddlewareConfig of the middleware that was created
  written,     \* the calls that wrote to the in-memory adapter, in order, its construction first
  frames,      \* the calls of MongoDBAdapter.getRolePermissions awaiting their inner call
  invalidated  \* per cache key, whether clearCache has returned after the upstream change

resolverVars == <<roles, call, result, visited, calls>>
cacheVars == <<cacheConfig, cache, now, ticks, upstream, fetches, procs,
               microtasks>>
adapterVars == <<adapter, table, users, request, response>>
auxVars == <<rbacConfig, written, frames, invalidated>>
vars == <<roles, call, result, visited, calls,
          cacheConfig, cache, now, ticks, upstream, fetches, procs,
          microtasks,
          adapter, table, users, request, response,
          rbacConfig, written, frames, invalidated>>

(***************************************************************************)
(* The role store contract as the resolver uses it.                        *)
(***************************************************************************)
\* adapter.findRole: roles.get(roleName) || null
findRole(store, roleName) ==
  IF roleName \in DOMAIN store THEN store[roleName] ELSE Null

\* Array.prototype.push in place of Set.prototype.add: no deduplication
SetAdd_push(seq, x) == Append(seq, x)

\* Set.prototype.add on a Set kept in insertion order
SetAdd(seq, x) == IF x \in Range(seq) THEN seq ELSE Append(seq, x)

\* role.permissions.forEach((perm) => allPermissions.add(perm))
RECURSIVE AddAll(_, _)
AddAll(seq, perms) ==
  IF perms = <<>> THEN seq
  ELSE AddAll(SetAdd(seq, Head(perms)), Tail(perms))

(***************************************************************************)
(* resolveRolePermissions                                                  *)
(***************************************************************************)
\* traverse that adds the role's own permissions and never follows inherits
ResolveTraverse_directOnly(store, maxDepth, currentRole, depth, st) ==
  IF depth > maxDepth THEN [st EXCEPT !.error = DepthError]
  ELSE IF currentRole \in st.visited THEN [st EXCEPT !.error = CircularError]
  ELSE
    LET role == findRole(store, currentRole)
        st1 == [st EXCEPT !.visited = @ \cup {currentRole}, !.lookups = @ + 1]
    IN IF role = Null THEN st1
       ELSE [st1 EXCEPT !.allPermissions = AddAll(@, role.permissions)]

\* traverse that tests the visited set before the depth
RECURSIVE ResolveTraverse_cycleFirst(_, _, _, _, _)
ResolveTraverse_cycleFirst(store, maxDepth, currentRole, depth, st) ==
  IF currentRole \in st.visited THEN [st EXCEPT !.error = CircularError]
  ELSE IF depth > maxDepth THEN [st EXCEPT !.error = DepthError]
  ELSE
    LET role == findRole(store, currentRole)
        st1 == [st EXCEPT !.visited = @ \cup {currentRole}, !.lookups = @ + 1]
    IN IF role = Null THEN st1
       ELSE
         LET st2 == [st1 EXCEPT
                       !.allPermissions = AddAll(@, role.permissions)]
         IN IF role.inherits # Undefined
            THEN ResolveTraverse_cycleFirst(store, maxDepth, role.inherits,
                                            depth + 1, st2)
            ELSE st2

\* traverse without the visited test: only the depth stops a cycle
RECURSIVE ResolveTraverse_noCycleCheck(_, _, _, _, _)
ResolveTraverse_noCycleCheck(store, maxDepth, currentRole, depth, st) ==
  IF depth > maxDepth THEN [st EXCEPT !.error = DepthError]
  ELSE
    LET role == findRole(store, currentRole)
        st1 == [st EXCEPT !.visited = @ \cup {currentRole}, !.lookups = @ + 1]
    IN IF role = Null THEN st1
       ELSE
         LET st2 == [st1 EXCEPT
                       !.allPermissions = AddAll(@, role.permissions)]
         IN IF role.inherits # Undefined
            THEN ResolveTraverse_noCycleCheck(store, maxDepth, role.inherits,
                                              depth + 1, st2)
            ELSE st2

\* traverse(currentRole, depth) of resolveRolePermissions; st carries the
\* closure's visited set, the allPermissions set, the number of findRole
\* calls made and the error thrown, if any
RECURSIVE ResolveTraverse(_, _, _, _, _)
ResolveTraverse(store, maxDepth, currentRole, depth, st) ==
  IF depth > maxDepth THEN [st EXCEPT !.error = DepthError]
  ELSE IF currentRole \in st.visited THEN [st EXCEPT !.error = CircularError]
  ELSE
    LET role == findRole(store, currentRole)
        st1 == [st EXCEPT !.visited = @ \cup {currentRole}, !.lookups = @ + 1]
    IN IF role = Null THEN st1
       ELSE
         LET st2 == [st1 EXCEPT
                       !.allPermissions = AddAll(@, role.permissions)]
         IN IF role.inherits # Undefined
            THEN ResolveTraverse(store, maxDepth, role.inherits, depth + 1, st2)
            ELSE st2

\* the outcome of a call: a thrown error carries no value
Outcome(error, value, st) ==
  [error |-> error, value |-> value, lookups |-> st.lookups,
   visited |-> st.visited]

\* resolveRolePermissions keeping the visited set of the previous call
resolveRolePermissions_sharedVisited(store, roleName, maxDepth) ==
  LET st == ResolveTraverse(store, maxDepth, roleName, 0,
              [visited |-> visited, allPermissions |-> <<>>,
               lookups |-> 0, error |-> NoError])
  IN IF st.error # NoError
     THEN Outcome(st.error, Undefined, st)
     ELSE Outcome(NoError, st.allPermissions, st)

\* resolveRolePermissions(adapter, roleName, {maxDepth})
resolveRolePermissions(store, roleName, maxDepth) ==
  LET st == ResolveTraverse(store, maxDepth, roleName, 0,
              [visited |-> {}, allPermissions |-> <<>>,
               lookups |-> 0, error |-> NoError])
  IN IF st.error # NoError
     THEN Outcome(st.error, Undefined, st)
     ELSE Outcome(NoError, st.allPermissions, st)

(***************************************************************************)
(* inheritsFrom                                                            *)
(***************************************************************************)
\* traverse that compares the direct parent only
InheritsTraverse_directOnly(store, maxDepth, parentRole, currentRole, depth, st) ==
  IF depth > maxDepth THEN [st EXCEPT !.value = FALSE]
  ELSE IF currentRole \in st.visited THEN [st EXCEPT !.value = FALSE]
  ELSE
    LET role == findRole(store, currentRole)
        st1 == [st EXCEPT !.visited = @ \cup {currentRole}, !.lookups = @ + 1]
    IN IF role = Null THEN [st1 EXCEPT !.value = FALSE]
       ELSE [st1 EXCEPT !.value = (role.inherits = parentRole)]

\* traverse without the depth test: only the visited set stops the walk
RECURSIVE InheritsTraverse_noDepthCheck(_, _, _, _, _, _)
InheritsTraverse_noDepthCheck(store, maxDepth, parentRole, currentRole, depth, st) ==
  IF currentRole \in st.visited THEN [st EXCEPT !.value = FALSE]
  ELSE
    LET role == findRole(store, currentRole)
        st1 == [st EXCEPT !.visited = @ \cup {currentRole}, !.lookups = @ + 1]
    IN IF role = Null THEN [st1 EXCEPT !.value = FALSE]
       ELSE IF role.inherits = parentRole THEN [st1 EXCEPT !.value = TRUE]
       ELSE IF role.inherits # Undefined
            THEN InheritsTraverse_noDepthCheck(store, maxDepth, parentRole,
                                               role.inherits, depth + 1, st1)
            ELSE [st1 EXCEPT !.value = FALSE]

\* traverse(currentRole, depth) of inheritsFrom; st.value is its boolean
RECURSIVE InheritsTraverse(_, _, _, _, _, _)
InheritsTraverse(store, maxDepth, parentRole, currentRole, depth, st) ==
  IF depth > maxDepth THEN [st EXCEPT !.value = FALSE]
  ELSE IF currentRole \in st.visited THEN [st EXCEPT !.value = FALSE]
  ELSE
    LET role == findRole(store, currentRole)
        st1 == [st EXCEPT !.visited = @ \cup {currentRole}, !.lookups = @ + 1]
    IN IF role = Null THEN [st1 EXCEPT !.value = FALSE]
       ELSE IF role.inherits = parentRole THEN [st1 EXCEPT !.value = TRUE]
       ELSE IF role.inherits # Undefined
            THEN InheritsTraverse(store, maxDepth, parentRole, role.inherits,
                                  depth + 1, st1)
            ELSE [st1 EXCEPT !.value = FALSE]

\* inheritsFrom(adapter, roleName, parentRole, {maxDepth})
inheritsFrom(store, roleName, parentRole, maxDepth) ==
  LET st == InheritsTraverse(store, maxDepth, parentRole, roleName, 0,
              [visited |-> {}, value |-> FALSE, lookups |-> 0])
  IN Outcome(NoError, st.value, st)

(***************************************************************************)
(* getRoleHierarchy                                                        *)
(***************************************************************************)
\* traverse that fails as soon as depth reaches maxDepth
RECURSIVE HierarchyTraverse_strictDepth(_, _, _, _, _)
HierarchyTraverse_strictDepth(store, maxDepth, currentRole, depth, st) ==
  IF depth >= maxDepth THEN [st EXCEPT !.error = DepthError]
  ELSE IF currentRole \in st.visited THEN [st EXCEPT !.error = CircularError]
  ELSE
    LET st1 == [st EXCEPT !.visited = @ \cup {currentRole},
                          !.hierarchy = Append(@, currentRole),
                          !.lookups = @ + 1]
        role == findRole(store, currentRole)
    IN IF role # Null /\ role.inherits # Undefined
       THEN HierarchyTraverse_strictDepth(store, maxDepth, role.inherits,
                                          depth + 1, st1)
       ELSE st1

\* traverse without the depth test
RECURSIVE HierarchyTraverse_noDepthCheck(_, _, _, _, _)
HierarchyTraverse_noDepthCheck(store, maxDepth, currentRole, depth, st) ==
  IF currentRole \in st.visited THEN [st EXCEPT !.error = CircularError]
  ELSE
    LET st1 == [st EXCEPT !.visited = @ \cup {currentRole},
                          !.hierarchy = Append(@, currentRole),
                          !.lookups = @ + 1]
        role == findRole(store, currentRole)
    IN IF role # Null /\ role.inherits # Undefined
       THEN HierarchyTraverse_noDepthCheck(store, maxDepth, role.inherits,
                                           depth + 1, st1)
       ELSE st1

\* traverse(currentRole, depth) of getRoleHierarchy
RECURSIVE HierarchyTraverse(_, _, _, _, _)
HierarchyTraverse(store, maxDepth, currentRole, depth, st) ==
  IF depth > maxDepth THEN [st EXCEPT !.error = DepthError]
  ELSE IF currentRole \in st.visited THEN [st EXCEPT !.error = CircularError]
  ELSE
    LET st1 == [st EXCEPT !.visited = @ \cup {currentRole},
                          !.hierarchy = Append(@, currentRole),
                          !.lookups = @ + 1]
        role == findRole(store, currentRole)
    IN IF role # Null /\ role.inherits # Undefined
       THEN HierarchyTraverse(store, maxDepth, role.inherits, depth + 1, st1)
       ELSE st1

\* getRoleHierarchy that lists a role only once its record was found
getRoleHierarchy_foundOnly(store, roleName, maxDepth) ==
  LET st == HierarchyTraverse(store, maxDepth, roleName, 0,
              [visited |-> {}, hierarchy |-> <<>>,
               lookups |-> 0, error |-> NoError])
  IN IF st.error # NoError
     THEN Outcome(st.error, Undefined, st)
     ELSE Outcome(NoError,
                  SelectSeq(st.hierarchy, LAMBDA r : r \in DOMAIN store), st)

\* getRoleHierarchy(adapter, roleName, {maxDepth})
getRoleHierarchy(store, roleName, maxDepth) ==
  LET st == HierarchyTraverse(store, maxDepth, roleName, 0,
              [visited |-> {}, hierarchy |-> <<>>,
               lookups |-> 0, error |-> NoError])
  IN IF st.error # NoError
     THEN Outcome(st.error, Undefined, st)
     ELSE Outcome(NoError, st.hierarchy, st)

(***************************************************************************)
(* The resolver's callers.                                                 *)
(***************************************************************************)
Idle == [op |-> "idle", roleName |-> Undefined, parentRole |-> Undefined,
         maxDepth |-> 0]
NoResult == [error |-> NoError, value |-> Undefined, lookups |-> 0,
             visited |-> {}]

\* the function a call record names, applied to the store
Apply(store, c) ==
  CASE c.op = "resolveRolePermissions" ->
         resolveRolePermissions(store, c.roleName, c.maxDepth)
    [] c.op = "inheritsFrom" ->
         inheritsFrom(store, c.roleName, c.parentRole, c.maxDepth)
    [] c.op = "getRoleHierarchy" ->
         getRoleHierarchy(store, c.roleName, c.maxDepth)

Invoke(c) ==
  LET out == Apply(roles, c)
  IN /\ call' = c
     /\ result' = out
     /\ visited' = IF c.op = "resolveRolePermissions"
                   THEN out.visited ELSE visited
     /\ UNCHANGED roles
     /\ UNCHANGED cacheVars
     /\ UNCHANGED adapterVars
     /\ UNCHANGED auxVars

CallResolve(r, d) ==
  /\ call.op = "idle"
  /\ calls' = 1
  /\ Invoke([op |-> "resolveRolePermissions", roleName |-> r,
             parentRole |-> Undefined, maxDepth |-> d])

CallInherits(r, p, d) ==
  /\ call.op = "idle"
  /\ calls' = 1
  /\ Invoke([op |-> "inheritsFrom", roleName |-> r, parentRole |-> p,
             maxDepth |-> d])

CallHierarchy(r, d) ==
  /\ call.op = "idle"
  /\ calls' = 1
  /\ Invoke([op |-> "getRoleHierarchy", roleName |-> r,
             parentRole |-> Undefined, maxDepth |-> d])

\* the same call made again on the unchanged store
Repeat ==
  /\ call.op # "idle"
  /\ calls < MaxCalls
  /\ calls' = calls + 1
  /\ Invoke(call)

\* the caller is done with the result
Return ==
  /\ call.op # "idle"
  /\ call' = Idle
  /\ result' = NoResult
  /\ visited' = {}
  /\ calls' = 0
  /\ UNCHANGED roles
  /\ UNCHANGED cacheVars
  /\ UNCHANGED adapterVars
  /\ UNCHANGED auxVars

(***************************************************************************)
(* BaseAdapter: the TTL cache.                                             *)
(***************************************************************************)
\* ttl || 300: the default time to live, in seconds
DefaultTtl == 300
\* ttl * 1000: milliseconds in a second
MsPerSecond == 1000

\* the keys the adapters call withCache with
CacheKeys == {"role:admin", "user-role:1"}
\* the arguments clearCache is called with: a key, '' or nothing
ClearArgs == CacheKeys \cup {"", Undefined}
\* the values the backing store holds under a key, before and after a change
Values == {"v1", "v2"}
\* the ttl an adapter is constructed with, as an optional number: <<>> when
\* not configured, <<n>> when configured as n seconds
TtlOptions == {<<>>, <<0>>, <<1>>}
\* by how many milliseconds the clock advances between two steps
TickSteps == {1000, 300000}
Procs == {1, 2}

\* the rejection of a fetcher, as the caller sees it
FetchError == "fetch failed"

\* JavaScript truthiness of an optional string
Truthy(x) == x \notin {Undefined, ""}

\* the Map created whatever cacheConfig.enabled says
NewCache_always(config) == [defined |-> TRUE, entries |-> <<>>]

\* constructor: the Map exists only when cacheConfig.enabled is truthy
NewCache(config) ==
  IF config.enabled = TRUE
  THEN [defined |-> TRUE, entries |-> <<>>]
  ELSE [defined |-> FALSE, entries |-> <<>>]

\* cached.expires < Date.now(): the comparison turned round
IsFresh_inverted(entry, t) == entry.expires < t

\* cached.expires >= Date.now(): an entry still served at its expiry time
IsFresh_orEqual(entry, t) == entry.expires >= t

\* cached.expires > Date.now()
IsFresh(entry, t) == entry.expires > t

\* cached alone, without the test of its expiry
CacheHit_anyEntry(c, key, t) == key \in DOMAIN c.entries

\* const cached = this.cache.get(key); cached && cached.expires > Date.now()
CacheHit(c, key, t) ==
  /\ key \in DOMAIN c.entries
  /\ IsFresh(c.entries[key], t)

\* this.cacheConfig.ttl || 300
TtlOf(config) ==
  IF config.ttl # <<>> /\ config.ttl[1] # 0 THEN config.ttl[1] ELSE DefaultTtl

\* Date.now() + ttl * 1000
ExpiresAt(t, config) == t + TtlOf(config) * MsPerSecond

\* Map.prototype.set
MapSet(m, key, value) ==
  [k \in DOMAIN m \cup {key} |-> IF k = key THEN value ELSE m[k]]

\* Map.prototype.delete
MapDelete(m, key) == [k \in DOMAIN m \ {key} |-> m[k]]

IdleProc == [pc |-> "idle", key |-> "", data |-> Undefined,
             result |-> Undefined, hit |-> FALSE, stores |-> FALSE]

\* withCache up to its first await: the cache test, and on a miss the
\* invocation of the fetcher
WithCacheCall(p, key) ==
  /\ procs[p].pc = "idle"
  /\ IF ~cache.defined
     THEN /\ fetches[key] < MaxFetches
          /\ fetches' = [fetches EXCEPT ![key] = @ + 1]
          /\ procs' = [procs EXCEPT ![p] =
                         [IdleProc EXCEPT !.pc = "fetching", !.key = key]]
     ELSE IF CacheHit(cache, key, now)
     THEN /\ procs' = [procs EXCEPT ![p] =
                         [IdleProc EXCEPT !.pc = "done", !.key = key,
                            !.result = cache.entries[key].data,
                            !.hit = TRUE]]
          /\ UNCHANGED fetches
     ELSE /\ fetches[key] < MaxFetches
          /\ fetches' = [fetches EXCEPT ![key] = @ + 1]
          /\ procs' = [procs EXCEPT ![p] =
                         [IdleProc EXCEPT !.pc = "fetching", !.key = key,
                            !.stores = TRUE]]
  /\ UNCHANGED <<cacheConfig, cache, now, ticks, upstream, microtasks>>
  /\ UNCHANGED resolverVars
  /\ UNCHANGED adapterVars
  /\ UNCHANGED auxVars

\* the fetcher's promise resolves with what the backing store holds; without
\* a cache that is what withCache returns
FetcherResolve(p) ==
  /\ procs[p].pc = "fetching"
  /\ procs' = [procs EXCEPT ![p] =
       IF procs[p].stores
       THEN [@ EXCEPT !.pc = "fetched", !.data = upstream[procs[p].key]]
       ELSE [@ EXCEPT !.pc = "done", !.result = upstream[procs[p].key]]]
  /\ microtasks' = IF procs[p].stores THEN Append(microtasks, p)
                   ELSE microtasks
  /\ UNCHANGED <<cacheConfig, cache, now, ticks, upstream, fetches>>
  /\ UNCHANGED resolverVars
  /\ UNCHANGED adapterVars
  /\ UNCHANGED auxVars

\* a rejection that is stored under the key like a value
FetcherReject_cachesFailure(p) ==
  /\ procs[p].pc = "fetching"
  /\ procs' = [procs EXCEPT ![p] = [@ EXCEPT !.pc = "done",
                                               !.result = FetchError]]
  /\ cache' = IF procs[p].stores
              THEN [cache EXCEPT !.entries =
                      MapSet(@, procs[p].key,
                             [data |-> FetchError,
                              expires |-> ExpiresAt(now, cacheConfig)])]
              ELSE cache
  /\ UNCHANGED <<cacheConfig, now, ticks, upstream, fetches, microtasks>>
  /\ UNCHANGED resolverVars
  /\ UNCHANGED adapterVars
  /\ UNCHANGED auxVars

\* the fetcher's promise rejects: the await throws out of withCache
FetcherReject(p) ==
  /\ procs[p].pc = "fetching"
  /\ procs' = [procs EXCEPT ![p] = [@ EXCEPT !.pc = "done",
                                               !.result = FetchError]]
  /\ UNCHANGED <<cacheConfig, cache, now, ticks, upstream, fetches, microtasks>>
  /\ UNCHANGED resolverVars
  /\ UNCHANGED adapterVars
  /\ UNCHANGED auxVars

\* withCache that keeps the entry another call has stored meanwhile
CacheStore_keepsFirst(p) ==
  /\ procs[p].pc = "fetched"
  /\ microtasks # <<>>
  /\ Head(microtasks) = p
  /\ microtasks' = Tail(microtasks)
  /\ cache' = IF procs[p].key \in DOMAIN cache.entries THEN cache
              ELSE [cache EXCEPT !.entries =
                      MapSet(@, procs[p].key,
                             [data |-> procs[p].data,
                              expires |-> ExpiresAt(now, cacheConfig)])]
  /\ procs' = [procs EXCEPT ![p] = [@ EXCEPT !.pc = "done",
                                               !.result = procs[p].data]]
  /\ UNCHANGED <<cacheConfig, now, ticks, upstream, fetches>>
  /\ UNCHANGED resolverVars
  /\ UNCHANGED adapterVars
  /\ UNCHANGED auxVars

\* withCache after the await: this.cache.set(key, {data, expires}) and
\* return; the calls resume in the order their awaits got their values
CacheStore(p) ==
  /\ procs[p].pc = "fetched"
  /\ microtasks # <<>>
  /\ Head(microtasks) = p
  /\ microtasks' = Tail(microtasks)
  /\ cache' = [cache EXCEPT !.entries =
                 MapSet(@, procs[p].key,
                        [data |-> procs[p].data,
                         expires |-> ExpiresAt(now, cacheConfig)])]
  /\ procs' = [procs EXCEPT ![p] = [@ EXCEPT !.pc = "done",
                                               !.result = procs[p].data]]
  /\ UNCHANGED <<cacheConfig, now, ticks, upstream, fetches>>
  /\ UNCHANGED resolverVars
  /\ UNCHANGED adapterVars
  /\ UNCHANGED auxVars

\* the caller takes the value or the error of its withCache call
CacheReturn(p) ==
  /\ procs[p].pc = "done"
  /\ procs' = [procs EXCEPT ![p] = IdleProc]
  /\ UNCHANGED <<cacheConfig, cache, now, ticks, upstream, fetches, microtasks>>
  /\ UNCHANGED resolverVars
  /\ UNCHANGED adapterVars
  /\ UNCHANGED auxVars

\* what clearCache(key?) leaves of the cache
clearCache(c, key) ==
  IF ~c.defined THEN c
  ELSE IF Truthy(key)
  THEN [c EXCEPT !.entries = MapDelete(@, key)]
  ELSE [c EXCEPT !.entries = <<>>]

\* clearCache(key?)
ClearCache(key) ==
  /\ cache' = clearCache(cache, key)
  /\ UNCHANGED <<cacheConfig, now, ticks, upstream, fetches, procs, microtasks>>
  /\ UNCHANGED resolverVars
  /\ UNCHANGED adapterVars
  /\ UNCHANGED auxVars

\* time passes
Tick(d) ==
  /\ ticks < MaxTicks
  /\ ticks' = ticks + 1
  /\ now' = now + d
  /\ UNCHANGED <<cacheConfig, cache, upstream, fetches, procs, microtasks>>
  /\ UNCHANGED resolverVars
  /\ UNCHANGED adapterVars
  /\ UNCHANGED auxVars

\* clearCache(key) called once the change behind the key has been made
ClearCacheAfterChange(key) ==
  /\ upstream[key] = "v2"
  /\ cache' = clearCache(cache, key)
  /\ invalidated' = [invalidated EXCEPT ![key] = TRUE]
  /\ UNCHANGED <<cacheConfig, now, ticks, upstream, fetches, procs, microtasks>>
  /\ UNCHANGED <<rbacConfig, written, frames>>
  /\ UNCHANGED resolverVars
  /\ UNCHANGED adapterVars

\* the role or the assignment behind a key is changed in the backing store
UpstreamChange(key) ==
  /\ upstream[key] = "v1"
  /\ upstream' = [upstream EXCEPT ![key] = "v2"]
  /\ UNCHANGED <<cacheConfig, cache, now, ticks, fetches, procs, microtasks>>
  /\ UNCHANGED resolverVars
  /\ UNCHANGED adapterVars
  /\ UNCHANGED auxVars

(***************************************************************************)
(* The shipped adapters (in-memory, Prisma, MongoDB) over their stores,    *)
(* and the permission functions of server/permissions.ts over an adapter.  *)
(* The Prisma adapter is taken with its default configuration: no cache.   *)
(***************************************************************************)
AdapterKinds == {"memory", "prisma", "mongodb"}
StoredRoles == {"admin", "user"}
StoredPermLists == {<<>>, <<"read">>, <<"read", "write">>}
PermissionNames == {"read", "write"}
PermissionArgs == {<<>>, <<"read">>, <<"write">>, <<"read", "write">>}
RoleArgs == {<<>>, <<"admin">>, <<"admin", "user">>}
UserIds == {"1"}

\* getUserRole's null
NullRole == "null"
\* a deleted_at that holds a date: the soft-delete marker is set
DeletedAt == [date |-> 1]
\* a document without the deleted_at field
Missing == [missing |-> TRUE]
DbError == "database error"

\* what a query for a role can meet: no failure, a first query that throws,
\* or a client of which every query throws
Faults == {"none", "first", "all"}

\* how a call ends
Settled(v) == [status |-> "returns", value |-> v]
Thrown(msg) == [status |-> "throws", message |-> msg]
NeverSettles == [status |-> "never settles"]

\* the rows of a roles table or collection
RoleRows(markers) ==
  [permissions : StoredPermLists,
   inherits : StoredRoles \cup {Undefined},
   deleted_at : markers]

Tables(markers) == UNION {[D -> RoleRows(markers)] : D \in SUBSET StoredRoles}

\* MemoryAdapterConfig.roles, by name
RoleConfigs == UNION {[D -> [permissions : StoredPermLists]] : D \in SUBSET StoredRoles}

UserTables == UNION {[D -> StoredRoles \cup {NullRole}] : D \in SUBSET UserIds}

\* InMemoryAdapter constructor: one document per configured role, made of
\* its name and permissions, deleted_at null
InMemoryAdapter(config) ==
  [n \in DOMAIN config |->
     [permissions |-> config[n].permissions,
      inherits |-> Undefined,
      deleted_at |-> Null]]

\* InMemoryAdapter.findRole: this.roles.get(roleName) || null
InMemoryAdapter_findRole(t, roleName) ==
  IF roleName \in DOMAIN t THEN t[roleName] ELSE Null

\* InMemoryAdapter.getRolePermissions: role?.permissions || []
InMemoryAdapter_getRolePermissions(t, roleName) ==
  IF roleName \in DOMAIN t THEN t[roleName].permissions ELSE <<>>

\* the record PrismaAdapter.findRole builds from a row
PrismaRecord(row, deletedAt) ==
  [permissions |-> row.permissions,
   inherits |-> Undefined,
   deleted_at |-> deletedAt]

\* PrismaAdapter.findRole: findUnique where name and deleted_at null; when
\* that throws, findUnique where name alone
PrismaAdapter_findRole(a, t, roleName, fault) ==
  IF a.deletedAtColumn /\ fault = "none"
  THEN IF roleName \in DOMAIN t /\ t[roleName].deleted_at = Null
       THEN Settled(PrismaRecord(t[roleName], t[roleName].deleted_at))
       ELSE Settled(Null)
  ELSE IF fault = "all"
  THEN Thrown(DbError)
  ELSE IF roleName \in DOMAIN t
  THEN Settled(PrismaRecord(t[roleName], Null))
  ELSE Settled(Null)

\* PrismaAdapter.getRolePermissions: role?.permissions || []
PrismaAdapter_getRolePermissions(a, t, roleName, fault) ==
  LET role == PrismaAdapter_findRole(a, t, roleName, fault)
  IN IF role.status # "returns" THEN role
     ELSE IF role.value = Null THEN Settled(<<>>)
     ELSE Settled(role.value.permissions)

\* MongoDBAdapter.findRole: findOne by name where deleted_at is null or
\* does not exist; the document comes back as stored
MongoDBAdapter_findRole(t, roleName) ==
  IF roleName \in DOMAIN t /\ t[roleName].deleted_at \in {Null, Missing}
  THEN t[roleName]
  ELSE Null

\* MongoDBAdapter.getRolePermissions: the role's permissions and, through
\* inherits, those of getRolePermissions(role.inherits).  active is the chain
\* of calls awaiting their inner call; a call for a role that is already
\* awaiting repeats that chain without end, so none of them settles
RECURSIVE MongoDBAdapter_getRolePermissions(_, _, _)
MongoDBAdapter_getRolePermissions(t, roleName, active) ==
  IF roleName \in active THEN NeverSettles
  ELSE LET role == MongoDBAdapter_findRole(t, roleName)
       IN IF role = Null THEN Settled(<<>>)
          ELSE LET permissions == AddAll(<<>>, role.permissions)
               IN IF Truthy(role.inherits)
                  THEN LET inheritedPermissions ==
                             MongoDBAdapter_getRolePermissions(
                               t, role.inherits, active \cup {roleName})
                       IN IF inheritedPermissions.status # "returns"
                          THEN inheritedPermissions
                          ELSE Settled(AddAll(permissions,
                                              inheritedPermissions.value))
                  ELSE Settled(permissions)

\* the adapter with its store, as the callers hold it
Handle(a, t, u) == [adapter |-> a, table |-> t, users |-> u]

\* RBACAdapter.findRole of the adapter in use
Adapter_findRole(h, roleName, fault) ==
  CASE h.adapter.kind = "memory" ->
         Settled(InMemoryAdapter_findRole(h.table, roleName))
    [] h.adapter.kind = "prisma" ->
         PrismaAdapter_findRole(h.adapter, h.table, roleName, fault)
    [] h.adapter.kind = "mongodb" ->
         IF fault = "all" THEN Thrown(DbError)
         ELSE Settled(MongoDBAdapter_findRole(h.table, roleName))

\* RBACAdapter.getRolePermissions of the adapter in use
Adapter_getRolePermissions(h, roleName, fault) ==
  CASE h.adapter.kind = "memory" ->
         Settled(InMemoryAdapter_getRolePermissions(h.table, roleName))
    [] h.adapter.kind = "prisma" ->
         PrismaAdapter_getRolePermissions(h.adapter, h.table, roleName, fault)
    [] h.adapter.kind = "mongodb" ->
         IF fault = "all" THEN Thrown(DbError)
         ELSE MongoDBAdapter_getRolePermissions(h.table, roleName, {})

\* RBACAdapter.getUserRole of the adapter in use: the role of the user, null
\* without the user or without a role
Adapter_getUserRole(h, userId) ==
  IF userId \in DOMAIN h.users THEN h.users[userId] ELSE NullRole

\* the roles findRole of the adapter returns, by name: the store as
\* resolveRolePermissions sees it through the adapter
AdapterView(h, fault) ==
  LET found(n) == Adapter_findRole(h, n, fault)
  IN [n \in {m \in StoredRoles : /\ found(m).status = "returns"
                                 /\ found(m).value # Null}
        |-> [permissions |-> found(n).value.permissions,
             inherits |-> found(n).value.inherits]]

\* resolveRolePermissions(adapter, roleName, {maxDepth}) over the adapter
Adapter_resolveRolePermissions(h, roleName, maxDepth, fault) ==
  IF Adapter_findRole(h, roleName, fault).status = "throws"
  THEN Adapter_findRole(h, roleName, fault)
  ELSE LET out == resolveRolePermissions(AdapterView(h, fault), roleName, maxDepth)
       IN IF out.error = NoError THEN Settled(out.value) ELSE Thrown(out.error)

\* Array.prototype.join(', ')
RECURSIVE Join(_)
Join(list) ==
  IF list = <<>> THEN ""
  ELSE IF Len(list) = 1 THEN list[1]
  ELSE list[1] \o ", " \o Join(Tail(list))

\* hasPermission: false without a role, else permissions.includes(permission)
hasPermission(h, userId, permission) ==
  LET role == Adapter_getUserRole(h, userId)
  IN IF role = NullRole THEN Settled(FALSE)
     ELSE LET permissions == Adapter_getRolePermissions(h, role, "none")
          IN IF permissions.status # "returns" THEN permissions
             ELSE Settled(permission \in Range(permissions.value))

\* hasAnyPermission: false without a role, else
\* permissions.some(p => userPermissions.includes(p))
hasAnyPermission(h, userId, permissions) ==
  LET role == Adapter_getUserRole(h, userId)
  IN IF role = NullRole THEN Settled(FALSE)
     ELSE LET userPermissions == Adapter_getRolePermissions(h, role, "none")
          IN IF userPermissions.status # "returns" THEN userPermissions
             ELSE Settled(\E i \in 1..Len(permissions) :
                            permissions[i] \in Range(userPermissions.value))

\* every() without the test for a role in front of it
hasAllPermissions_roleBlind(h, userId, permissions) ==
  LET role == Adapter_getUserRole(h, userId)
      userPermissions == IF role = NullRole THEN Settled(<<>>)
                         ELSE Adapter_getRolePermissions(h, role, "none")
  IN IF userPermissions.status # "returns" THEN userPermissions
     ELSE Settled(\A i \in 1..Len(permissions) :
                    permissions[i] \in Range(userPermissions.value))

\* hasAllPermissions: false without a role, else
\* permissions.every(p => userPermissions.includes(p))
hasAllPermissions(h, userId, permissions) ==
  LET role == Adapter_getUserRole(h, userId)
  IN IF role = NullRole THEN Settled(FALSE)
     ELSE LET userPermissions == Adapter_getRolePermissions(h, role, "none")
          IN IF userPermissions.status # "returns" THEN userPermissions
             ELSE Settled(\A i \in 1..Len(permissions) :
                            permissions[i] \in Range(userPermissions.value))

\* hasRole: userRole === role
hasRole(h, userId, role) == Settled(Adapter_getUserRole(h, userId) = role)

\* hasAnyRole: userRole ? roles.includes(userRole) : false
hasAnyRole(h, userId, roleList) ==
  LET userRole == Adapter_getUserRole(h, userId)
  IN Settled(userRole # NullRole /\ userRole \in Range(roleList))

\* a require function: the check, then the throw when it said false
Require(allowed, message) ==
  IF allowed.status # "returns" THEN allowed
  ELSE IF ~allowed.value THEN Thrown(message)
  ELSE Settled(Undefined)

\* a requirePermission that throws on every call
requirePermission_alwaysThrows(h, userId, permission) ==
  Thrown("Permission denied: " \o permission)

\* requirePermission and its kin: Error(`Permission denied: ${permission}`)
requirePermission(h, userId, permission) ==
  Require(hasPermission(h, userId, permission),
          "Permission denied: " \o permission)

requireRole(h, userId, role) ==
  Require(hasRole(h, userId, role), "Role required: " \o role)

requireAnyPermission(h, userId, permissions) ==
  Require(hasAnyPermission(h, userId, permissions),
          "Permission denied: requires one of " \o Join(permissions))

requireAllPermissions(h, userId, permissions) ==
  Require(hasAllPermissions(h, userId, permissions),
          "Permission denied: requires all of " \o Join(permissions))

\* the calls made on the adapter and on the permission functions
NoRequest ==
  [op |-> "idle", userId |-> "", permission |-> "", permissions |-> <<>>,
   role |-> "", roles |-> <<>>, maxDepth |-> 0, fault |-> "none"]

NoResponse == [status |-> "idle"]

\* the failures the client of the adapter can show
FaultsOf(a) ==
  CASE a.kind = "memory" -> {"none"}
    [] a.kind = "prisma" -> Faults
    [] a.kind = "mongodb" -> {"none", "all"}

\* the call is made and its outcome is there
Serve(req, out) ==
  /\ request' = req
  /\ response' = out
  /\ UNCHANGED <<adapter, table, users>>
  /\ UNCHANGED auxVars
  /\ UNCHANGED resolverVars
  /\ UNCHANGED cacheVars

Here == Handle(adapter, table, users)

CallFindRole(r, f) ==
  /\ f \in FaultsOf(adapter)
  /\ request.op = "idle"
  /\ Serve([NoRequest EXCEPT !.op = "findRole", !.role = r, !.fault = f],
           Adapter_findRole(Here, r, f))

CallGetUserRole(u) ==
  /\ request.op = "idle"
  /\ Serve([NoRequest EXCEPT !.op = "getUserRole", !.userId = u],
        Settled(Adapter_getUserRole(Here, u)))

CallGetRolePermissions(r, f) ==
  /\ f \in FaultsOf(adapter)
  /\ request.op = "idle"
  /\ Serve([NoRequest EXCEPT !.op = "getRolePermissions", !.role = r,
                             !.fault = f],
           Adapter_getRolePermissions(Here, r, f))

CallResolveOverAdapter(r, d, f) ==
  /\ f \in FaultsOf(adapter)
  /\ request.op = "idle"
  /\ Serve([NoRequest EXCEPT !.op = "resolveRolePermissions", !.role = r,
                             !.maxDepth = d, !.fault = f],
           Adapter_resolveRolePermissions(Here, r, d, f))

CallHasPermission(u, p) ==
  /\ request.op = "idle"
  /\ Serve([NoRequest EXCEPT !.op = "hasPermission", !.userId = u,
                          !.permission = p],
        hasPermission(Here, u, p))

CallHasAnyPermission(u, ps) ==
  /\ request.op = "idle"
  /\ Serve([NoRequest EXCEPT !.op = "hasAnyPermission", !.userId = u,
                          !.permissions = ps],
        hasAnyPermission(Here, u, ps))

CallHasAllPermissions(u, ps) ==
  /\ request.op = "idle"
  /\ Serve([NoRequest EXCEPT !.op = "hasAllPermissions", !.userId = u,
                          !.permissions = ps],
        hasAllPermissions(Here, u, ps))

CallHasRole(u, r) ==
  /\ request.op = "idle"
  /\ Serve([NoRequest EXCEPT !.op = "hasRole", !.userId = u, !.role = r],
        hasRole(Here, u, r))

CallHasAnyRole(u, rs) ==
  /\ request.op = "idle"
  /\ Serve([NoRequest EXCEPT !.op = "hasAnyRole", !.userId = u, !.roles = rs],
        hasAnyRole(Here, u, rs))

CallRequirePermission(u, p) ==
  /\ request.op = "idle"
  /\ Serve([NoRequest EXCEPT !.op = "requirePermission", !.userId = u,
                          !.permission = p],
        requirePermission(Here, u, p))

CallRequireRole(u, r) ==
  /\ request.op = "idle"
  /\ Serve([NoRequest EXCEPT !.op = "requireRole", !.userId = u, !.role = r],
        requireRole(Here, u, r))

CallRequireAnyPermission(u, ps) ==
  /\ request.op = "idle"
  /\ Serve([NoRequest EXCEPT !.op = "requireAnyPermission", !.userId = u,
                          !.permissions = ps],
        requireAnyPermission(Here, u, ps))

CallRequireAllPermissions(u, ps) ==
  /\ request.op = "idle"
  /\ Serve([NoRequest EXCEPT !.op = "requireAllPermissions", !.userId = u,
                          !.permissions = ps],
        requireAllPermissions(Here, u, ps))

\* the caller has taken the outcome of its call
Respond ==
  /\ request.op # "idle"
  /\ request' = NoRequest
  /\ response' = NoResponse
  /\ UNCHANGED <<adapter, table, users>>
  /\ UNCHANGED auxVars
  /\ UNCHANGED resolverVars
  /\ UNCHANGED cacheVars

(***************************************************************************)
(* createRBACMiddleware: the middleware over an adapter.                   *)
(***************************************************************************)
MaxRules == 2

Pathnames == {"/admin/users", "/administrator", "/public", "/"}
RouteKeys == {"", "/admin", "/admin/users"}
\* what getUserId resolves to: null or a user id
NullUserId == "null"
SessionUsers == {NullUserId, "1"}

\* an optional field: <<>> when it is absent, <<v>> when it holds v
Absent == <<>>
Some(v) == <<v>>

\* RouteProtection: each of its four fields is optional; custom is given by
\* what the function resolves to
NoProtection ==
  [roles |-> Absent, permissions |-> Absent, anyPermissions |-> Absent,
   custom |-> Absent]

Protections ==
  {NoProtection,
   [NoProtection EXCEPT !.roles = Some(<<"admin">>)],
   [NoProtection EXCEPT !.roles = Some(<<>>)],
   [NoProtection EXCEPT !.permissions = Some(<<"read", "write">>)],
   [NoProtection EXCEPT !.anyPermissions = Some(<<"write">>)],
   [NoProtection EXCEPT !.anyPermissions = Some(<<>>)],
   [NoProtection EXCEPT !.custom = Some(FALSE)],
   [roles |-> Some(<<"admin">>), permissions |-> Some(<<"read", "write">>),
    anyPermissions |-> Some(<<"write">>), custom |-> Some(TRUE)]}

\* Record<string, RouteProtection> in the order of its keys: a list of
\* rules with distinct keys
RECURSIVE RuleLists(_)
RuleLists(n) ==
  IF n = 0 THEN {<<>>}
  ELSE RuleLists(n - 1) \cup
       {Append(l, [key |-> k, protection |-> pr]) :
          l \in {m \in RuleLists(n - 1) : Len(m) = n - 1},
          k \in RouteKeys, pr \in Protections}

ProtectedRoutes ==
  {l \in RuleLists(MaxRules) :
     \A i, j \in 1..Len(l) : i # j => l[i].key # l[j].key}

\* RBACMiddlewareConfig without the adapter: the two urls with their
\* defaults, isPublicRoute as the set of pathnames it says true for
DefaultUnauthorizedUrl == "/login"
DefaultForbiddenUrl == "/forbidden"
MiddlewareConfigs ==
  {[unauthorizedUrl |-> Absent, forbiddenUrl |-> Absent, isPublicRoute |-> Absent],
   [unauthorizedUrl |-> Some("/signin"), forbiddenUrl |-> Some("/denied"),
    isPublicRoute |-> Some({"/public", "/administrator"})]}

\* NextResponse.next() and NextResponse.redirect(new URL(url, req.url))
NextResponse_next == [type |-> "next", url |-> ""]
NextResponse_redirect(url) == [type |-> "redirect", url |-> url]

\* String.prototype.startsWith
StartsWith(s, prefix) ==
  IF prefix = "" THEN TRUE
  ELSE Len(prefix) <= Len(s) /\ SubSeq(s, 1, Len(prefix)) = prefix

\* Object.keys(protectedRoutes)
ObjectKeys(routes) == [i \in 1..Len(routes) |-> routes[i].key]

\* where key goes into a list sorted by (a, b) => b.length - a.length:
\* behind every key that is not shorter
RECURSIVE InsertByLength(_, _)
InsertByLength(sorted, key) ==
  IF sorted = <<>> THEN <<key>>
  ELSE IF Len(Head(sorted)) >= Len(key)
  THEN <<Head(sorted)>> \o InsertByLength(Tail(sorted), key)
  ELSE <<key>> \o sorted

\* the keys left in the order they were given: no sort
SortByLengthDesc_unsorted(keys) == keys

\* .sort((a, b) => b.length - a.length): longest first, stable
RECURSIVE SortByLengthDesc(_)
SortByLengthDesc(keys) ==
  IF keys = <<>> THEN <<>>
  ELSE InsertByLength(SortByLengthDesc(SubSeq(keys, 1, Len(keys) - 1)),
                      keys[Len(keys)])

\* .find((route) => pathname.startsWith(route)): Absent for undefined
RECURSIVE FindRoute(_, _)
FindRoute(keys, pathname) ==
  IF keys = <<>> THEN Absent
  ELSE IF StartsWith(pathname, Head(keys)) THEN Some(Head(keys))
  ELSE FindRoute(Tail(keys), pathname)

\* protectedRoutes[matchingRoute]
RuleOf(routes, key) ==
  routes[CHOOSE i \in 1..Len(routes) : routes[i].key = key].protection

\* a list that is there and not empty
NonEmptyList(field) == field # Absent /\ Len(field[1]) > 0

\* the middleware createRBACMiddleware returns, called on a request with
\* pathname and protectedRoutes; userId is what getUserId resolves to
middleware(config, h, pathname, protectedRoutes, userId) ==
  LET unauthorizedUrl == IF config.unauthorizedUrl = Absent
                         THEN DefaultUnauthorizedUrl
                         ELSE config.unauthorizedUrl[1]
      forbiddenUrl == IF config.forbiddenUrl = Absent
                      THEN DefaultForbiddenUrl
                      ELSE config.forbiddenUrl[1]
      matchingRoute ==
        FindRoute(SortByLengthDesc(ObjectKeys(protectedRoutes)), pathname)
      protection == RuleOf(protectedRoutes, matchingRoute[1])
      userRole == Adapter_getUserRole(h, userId)
      userPermissions == Adapter_getRolePermissions(h, userRole, "none").value
  IN IF config.isPublicRoute # Absent /\ pathname \in config.isPublicRoute[1]
     THEN NextResponse_next
     ELSE IF matchingRoute = Absent \/ matchingRoute[1] = ""
     THEN NextResponse_next
     ELSE IF userId \in {NullUserId, ""}
     THEN NextResponse_redirect(unauthorizedUrl)
     ELSE IF userRole \in {NullRole, ""}
     THEN NextResponse_redirect(forbiddenUrl)
     ELSE IF /\ NonEmptyList(protection.roles)
             /\ userRole \notin Range(protection.roles[1])
     THEN NextResponse_redirect(forbiddenUrl)
     ELSE IF /\ NonEmptyList(protection.permissions)
             /\ ~(\A i \in 1..Len(protection.permissions[1]) :
                    protection.permissions[1][i] \in Range(userPermissions))
     THEN NextResponse_redirect(forbiddenUrl)
     ELSE IF /\ NonEmptyList(protection.anyPermissions)
             /\ ~(\E i \in 1..Len(protection.anyPermissions[1]) :
                    protection.anyPermissions[1][i] \in Range(userPermissions))
     THEN NextResponse_redirect(forbiddenUrl)
     ELSE IF protection.custom # Absent /\ ~protection.custom[1]
     THEN NextResponse_redirect(forbiddenUrl)
     ELSE NextResponse_next

\* a request goes through the middleware
CallMiddleware(pathname, protectedRoutes, userId) ==
  /\ request.op = "idle"
  /\ request' = [op |-> "middleware", pathname |-> pathname,
                 protectedRoutes |-> protectedRoutes, userId |-> userId]
  /\ response' = Settled(middleware(rbacConfig, Here, pathname,
                                    protectedRoutes, userId))
  /\ UNCHANGED <<adapter, table, users>>
  /\ UNCHANGED <<rbacConfig, written, frames, invalidated>>
  /\ UNCHANGED resolverVars
  /\ UNCHANGED cacheVars

(***************************************************************************)
(* The writing methods of InMemoryAdapter.                                 *)
(***************************************************************************)
MaxOps == 3

\* the document setRole and the constructor store under a name
MemoryDocument(permissions) ==
  [permissions |-> permissions, inherits |-> Undefined, deleted_at |-> Null]

\* a setRole that leaves a role alone once it is stored
InMemoryAdapter_setRole_keepsFirst(t, name, permissions) ==
  IF name \in DOMAIN t THEN t ELSE MapSet(t, name, MemoryDocument(permissions))

\* InMemoryAdapter.setRole: this.roles.set(name, {...})
InMemoryAdapter_setRole(t, name, permissions) ==
  MapSet(t, name, MemoryDocument(permissions))

\* InMemoryAdapter.deleteRole: this.roles.delete(name)
InMemoryAdapter_deleteRole(t, name) == MapDelete(t, name)

\* InMemoryAdapter.setUser: this.users.set(id, {id, role})
InMemoryAdapter_setUser(u, id, role) == MapSet(u, id, role)

\* InMemoryAdapter.deleteUser: this.users.delete(id)
InMemoryAdapter_deleteUser(u, id) == MapDelete(u, id)

\* one entry of the record of writing calls
Written(op, name, permissions, config) ==
  [op |-> op, name |-> name, permissions |-> permissions, config |-> config]

\* a writing call is made between two reading calls, and is recorded
Write(entry) ==
  /\ request.op = "idle"
  /\ Len(written) <= MaxOps
  /\ written' = Append(written, entry)
  /\ UNCHANGED <<adapter, request, response>>
  /\ UNCHANGED <<rbacConfig, frames, invalidated>>
  /\ UNCHANGED resolverVars
  /\ UNCHANGED cacheVars

SetRole(name, permissions) ==
  /\ table' = InMemoryAdapter_setRole(table, name, permissions)
  /\ UNCHANGED users
  /\ Write(Written("setRole", name, permissions, <<>>))

DeleteRole(name) ==
  /\ table' = InMemoryAdapter_deleteRole(table, name)
  /\ UNCHANGED users
  /\ Write(Written("deleteRole", name, <<>>, <<>>))

SetUser(id, role) ==
  /\ users' = InMemoryAdapter_setUser(users, id, role)
  /\ UNCHANGED table
  /\ Write(Written("setUser", id, <<>>, <<>>))

DeleteUser(id) ==
  /\ users' = InMemoryAdapter_deleteUser(users, id)
  /\ UNCHANGED table
  /\ Write(Written("deleteUser", id, <<>>, <<>>))

\* InMemoryAdapter.clear: this.roles.clear(); this.users.clear()
Clear ==
  /\ table' = <<>>
  /\ users' = <<>>
  /\ Write(Written("clear", "", <<>>, <<>>))

(***************************************************************************)
(* MongoDBAdapter.getRolePermissions, one await at a time.                 *)
(***************************************************************************)
\* how many calls awaiting their inner call are kept apart; of a longer
\* chain the innermost MaxFrames are kept
MaxFrames == 3

Pending == [status |-> "pending"]

\* a call of getRolePermissions(roleName) about to await findRole; depth is
\* its place in the chain of calls, counted modulo MaxFrames + 1
Frame(roleName, depth) ==
  [role |-> roleName, pc |-> "findRole", permissions |-> <<>>,
   depth |-> depth % (MaxFrames + 1)]

\* the chain of calls with one more, innermost, call
Push(chain, frame) ==
  IF Len(chain) < MaxFrames THEN Append(chain, frame)
  ELSE Append(Tail(chain), frame)

\* the innermost call returns value: to its caller, which awaits it, or, for
\* the outermost call, to the caller of the adapter
ReturnFrom(chain, value) ==
  IF Len(chain) = 1
  THEN /\ frames' = <<>>
       /\ response' = Settled(value)
  ELSE /\ frames' = [SubSeq(chain, 1, Len(chain) - 1)
                       EXCEPT ![Len(chain) - 1] =
                         [@ EXCEPT !.pc = "resumed",
                                   !.permissions = AddAll(@, value)]]
       /\ UNCHANGED response

\* getRolePermissions(roleName) is called on the MongoDB adapter
MongoCall(roleName) ==
  /\ adapter.kind = "mongodb"
  /\ request.op = "idle"
  /\ request' = [NoRequest EXCEPT !.op = "MongoDBAdapter.getRolePermissions",
                                  !.role = roleName]
  /\ response' = Pending
  /\ frames' = <<Frame(roleName, 0)>>
  /\ UNCHANGED <<adapter, table, users>>
  /\ UNCHANGED <<rbacConfig, written, invalidated>>
  /\ UNCHANGED resolverVars
  /\ UNCHANGED cacheVars

\* the innermost call gets its role from findRole: it returns [] for no
\* role, the role's permissions for a role without inherits, and otherwise
\* calls getRolePermissions(role.inherits) and awaits it
MongoFindRoleStep ==
  /\ frames # <<>>
  /\ frames[Len(frames)].pc = "findRole"
  /\ LET top == frames[Len(frames)]
         role == MongoDBAdapter_findRole(table, top.role)
     IN IF role = Null THEN ReturnFrom(frames, <<>>)
        ELSE IF Truthy(role.inherits)
        THEN /\ frames' =
                  Push([frames EXCEPT ![Len(frames)] =
                          [@ EXCEPT !.pc = "awaiting",
                                    !.permissions =
                                      AddAll(<<>>, role.permissions)]],
                       Frame(role.inherits, top.depth + 1))
             /\ UNCHANGED response
        ELSE ReturnFrom(frames, AddAll(<<>>, role.permissions))
  /\ UNCHANGED <<adapter, table, users, request>>
  /\ UNCHANGED <<rbacConfig, written, invalidated>>
  /\ UNCHANGED resolverVars
  /\ UNCHANGED cacheVars

\* a call whose inner call has returned: it has added the inherited
\* permissions to its own and returns them
MongoResumeStep ==
  /\ frames # <<>>
  /\ frames[Len(frames)].pc = "resumed"
  /\ ReturnFrom(frames, frames[Len(frames)].permissions)
  /\ UNCHANGED <<adapter, table, users, request>>
  /\ UNCHANGED <<rbacConfig, written, invalidated>>
  /\ UNCHANGED resolverVars
  /\ UNCHANGED cacheVars

\* the caller takes what the call returned
MongoRespond ==
  /\ response.status = "returns"
  /\ Respond

(***************************************************************************)
(* Specifications.                                                         *)
(***************************************************************************)
\* an adapter constructed with the given configuration, nothing called yet
AdapterInit(config) ==
  /\ cacheConfig = config
  /\ cache = NewCache(config)
  /\ now = 0
  /\ ticks = 0
  /\ upstream = [k \in CacheKeys |-> "v1"]
  /\ fetches = [k \in CacheKeys |-> 0]
  /\ procs = [p \in Procs |-> IdleProc]
  /\ microtasks = <<>>

\* no adapter call under way, over an empty store
NoAdapter ==
  /\ adapter = [kind |-> "memory", deletedAtColumn |-> TRUE]
  /\ table = <<>>
  /\ users = <<>>
  /\ request = NoRequest
  /\ response = NoResponse

\* no middleware created, nothing written, no call awaiting, nothing invalidated
NoAux ==
  /\ rbacConfig = <<>>
  /\ written = <<>>
  /\ frames = <<>>
  /\ invalidated = <<>>

ResolverInit ==
  /\ call = Idle
  /\ result = NoResult
  /\ visited = {}
  /\ calls = 0

\* the resolver over every role store
InitResolver ==
  /\ roles \in RoleStores
  /\ ResolverInit
  /\ AdapterInit([enabled |-> FALSE, ttl |-> <<>>])
  /\ NoAdapter
  /\ NoAux

NextResolver ==
  \/ \E r \in RoleNames, d \in 0..MaxDepthOpt : CallResolve(r, d)
  \/ \E r \in RoleNames, p \in RoleNames, d \in 0..MaxDepthOpt :
       CallInherits(r, p, d)
  \/ \E r \in RoleNames, d \in 0..MaxDepthOpt : CallHierarchy(r, d)
  \/ Repeat
  \/ Return

SpecResolver == InitResolver /\ [][NextResolver]_vars

\* the cache of an adapter under every configuration
InitCache ==
  /\ roles = <<>>
  /\ ResolverInit
  /\ \E e \in BOOLEAN, t \in TtlOptions :
       AdapterInit([enabled |-> e, ttl |-> t])
  /\ NoAdapter
  /\ NoAux

\* the key whose role is changed while the cache is in use
ChangedKeys == {"role:admin"}

NextCache ==
  \/ \E p \in Procs, k \in CacheKeys : WithCacheCall(p, k)
  \/ \E p \in Procs : FetcherResolve(p)
  \/ \E p \in Procs : FetcherReject(p)
  \/ \E p \in Procs : CacheStore(p)
  \/ \E p \in Procs : CacheReturn(p)
  \/ \E k \in ClearArgs : ClearCache(k)
  \/ \E d \in TickSteps : Tick(d)
  \/ \E k \in ChangedKeys : UpstreamChange(k)

SpecCache == InitCache /\ [][NextCache]_vars

\* each shipped adapter over every content of its store
InitAdapters ==
  /\ roles = <<>>
  /\ ResolverInit
  /\ AdapterInit([enabled |-> FALSE, ttl |-> <<>>])
  /\ \/ /\ adapter = [kind |-> "memory", deletedAtColumn |-> TRUE]
        /\ \E config \in RoleConfigs : table = InMemoryAdapter(config)
     \/ /\ adapter = [kind |-> "prisma", deletedAtColumn |-> TRUE]
        /\ table \in Tables({Null, DeletedAt})
     \/ /\ adapter = [kind |-> "prisma", deletedAtColumn |-> FALSE]
        /\ table \in Tables({Missing})
     \/ /\ adapter = [kind |-> "mongodb", deletedAtColumn |-> TRUE]
        /\ table \in Tables({Null, DeletedAt, Missing})
  /\ users \in UserTables
  /\ request = NoRequest
  /\ response = NoResponse
  /\ NoAux

NextAdapters ==
  \/ \E r \in StoredRoles, f \in Faults : CallFindRole(r, f)
  \/ \E u \in UserIds : CallGetUserRole(u)
  \/ \E r \in StoredRoles, f \in Faults : CallGetRolePermissions(r, f)
  \/ \E r \in StoredRoles, d \in 0..MaxDepthOpt, f \in Faults :
       CallResolveOverAdapter(r, d, f)
  \/ \E u \in UserIds, p \in PermissionNames : CallHasPermission(u, p)
  \/ \E u \in UserIds, ps \in PermissionArgs : CallHasAnyPermission(u, ps)
  \/ \E u \in UserIds, ps \in PermissionArgs : CallHasAllPermissions(u, ps)
  \/ \E u \in UserIds, r \in StoredRoles : CallHasRole(u, r)
  \/ \E u \in UserIds, rs \in RoleArgs : CallHasAnyRole(u, rs)
  \/ \E u \in UserIds, p \in PermissionNames : CallRequirePermission(u, p)
  \/ \E u \in UserIds, r \in StoredRoles : CallRequireRole(u, r)
  \/ \E u \in UserIds, ps \in PermissionArgs : CallRequireAnyPermission(u, ps)
  \/ \E u \in UserIds, ps \in PermissionArgs : CallRequireAllPermissions(u, ps)
  \/ Respond

SpecAdapters == InitAdapters /\ [][NextAdapters]_vars

\* the stores the middleware is run over: both roles configured, admin with
\* read and write
MiddlewareRoleConfigs ==
  {c \in RoleConfigs : /\ DOMAIN c = StoredRoles
                       /\ c["admin"].permissions = <<"read", "write">>}

\* a middleware created over an in-memory adapter
InitMiddleware ==
  /\ roles = <<>>
  /\ ResolverInit
  /\ AdapterInit([enabled |-> FALSE, ttl |-> <<>>])
  /\ adapter = [kind |-> "memory", deletedAtColumn |-> TRUE]
  /\ \E config \in MiddlewareRoleConfigs : table = InMemoryAdapter(config)
  /\ users \in UserTables
  /\ request = NoRequest
  /\ response = NoResponse
  /\ rbacConfig \in MiddlewareConfigs
  /\ written = <<>>
  /\ frames = <<>>
  /\ invalidated = <<>>

NextMiddleware ==
  \/ /\ request.op = "idle"
     /\ \E pathname \in Pathnames, protectedRoutes \in ProtectedRoutes,
           userId \in SessionUsers :
          CallMiddleware(pathname, protectedRoutes, userId)
  \/ Respond

SpecMiddleware == InitMiddleware /\ [][NextMiddleware]_vars

\* the names setRole and deleteRole are called with
WrittenRoles == {"admin", "user"}

\* the configurations the in-memory adapter is constructed with
MemoryRoleConfigs ==
  {c \in RoleConfigs : \A n \in DOMAIN c : c[n].permissions = <<"read">>}

\* an in-memory adapter as constructed, then written to and read
InitMemory ==
  /\ roles = <<>>
  /\ ResolverInit
  /\ AdapterInit([enabled |-> FALSE, ttl |-> <<>>])
  /\ adapter = [kind |-> "memory", deletedAtColumn |-> TRUE]
  /\ \E config \in MemoryRoleConfigs :
       /\ table = InMemoryAdapter(config)
       /\ written = <<Written("constructor", "", <<>>, config)>>
  /\ users \in UserTables
  /\ request = NoRequest
  /\ response = NoResponse
  /\ rbacConfig = <<>>
  /\ frames = <<>>
  /\ invalidated = <<>>

NextMemory ==
  \/ \E n \in WrittenRoles, ps \in StoredPermLists : SetRole(n, ps)
  \/ \E n \in WrittenRoles : DeleteRole(n)
  \/ \E u \in UserIds, r \in StoredRoles : SetUser(u, r)
  \/ \E u \in UserIds : DeleteUser(u)
  \/ Clear
  \/ \E r \in StoredRoles : CallFindRole(r, "none")
  \/ \E r \in StoredRoles : CallGetRolePermissions(r, "none")
  \/ \E u \in UserIds : CallGetUserRole(u)
  \/ Respond

SpecMemory == InitMemory /\ [][NextMemory]_vars

\* an adapter with its cache enabled, whose callers clear a key after they
\* have changed what lies behind it
InitInvalidation ==
  /\ roles = <<>>
  /\ ResolverInit
  /\ \E t \in TtlOptions : AdapterInit([enabled |-> TRUE, ttl |-> t])
  /\ NoAdapter
  /\ rbacConfig = <<>>
  /\ written = <<>>
  /\ frames = <<>>
  /\ invalidated = [k \in CacheKeys |-> FALSE]

NextInvalidation ==
  \/ \E p \in Procs, k \in CacheKeys : WithCacheCall(p, k)
  \/ \E p \in Procs : FetcherResolve(p)
  \/ \E p \in Procs : FetcherReject(p)
  \/ \E p \in Procs : CacheStore(p)
  \/ \E p \in Procs : CacheReturn(p)
  \/ \E k \in CacheKeys : ClearCacheAfterChange(k)
  \/ \E d \in TickSteps : Tick(d)
  \/ \E k \in CacheKeys : UpstreamChange(k)

SpecInvalidation == InitInvalidation /\ [][NextInvalidation]_vars

\* the MongoDB adapter over every content of its roles collection
InitMongo ==
  /\ roles = <<>>
  /\ ResolverInit
  /\ AdapterInit([enabled |-> FALSE, ttl |-> <<>>])
  /\ adapter = [kind |-> "mongodb", deletedAtColumn |-> TRUE]
  /\ table \in Tables({Null, DeletedAt, Missing})
  /\ users = <<>>
  /\ request = NoRequest
  /\ response = NoResponse
  /\ NoAux

NextMongo ==
  \/ \E r \in StoredRoles : MongoCall(r)
  \/ MongoFindRoleStep
  \/ MongoResumeStep
  \/ MongoRespond

\* a promise that is resolved has its continuation run: no call that can
\* take its next step waits for ever
SpecMongo ==
  /\ InitMongo
  /\ [][NextMongo]_vars
  /\ WF_vars(MongoFindRoleStep)
  /\ WF_vars(MongoResumeStep)

(***************************************************************************)
(* Notions of the role graph in which the properties are stated.           *)
(***************************************************************************)
\* the parent a stored role names, Undefined for a root or an absent role
Parent(store, r) ==
  IF r \in DOMAIN store THEN store[r].inherits ELSE Undefined

\* the roles met by following at most n parent links from r
RECURSIVE Walk(_, _, _)
Walk(store, r, n) ==
  IF n = 0 \/ Parent(store, r) = Undefined THEN <<r>>
  ELSE <<r>> \o Walk(store, Parent(store, r), n - 1)

\* the walk from r, long enough to meet a name twice if it ever does
PathFrom(store, r) == Walk(store, r, Cardinality(RoleNames))

\* the walk from r comes back to a role it has already met
Cyclic(store, r) ==
  LET path == PathFrom(store, r)
  IN \E i, j \in 1..Len(path) : i < j /\ path[i] = path[j]

\* the depth (edges from r) at which the walk first meets a role again
RevisitDepth(store, r) ==
  LET path == PathFrom(store, r)
      again == {j \in 1..Len(path) : \E i \in 1..(j - 1) : path[i] = path[j]}
  IN (CHOOSE j \in again : \A k \in again : j <= k) - 1

\* the number of edges of the acyclic chain from r to its last role
ChainDepth(store, r) == Len(PathFrom(store, r)) - 1

\* the direct permissions of a role, none for a role that is not stored
DirectPermissions(store, r) ==
  IF r \in DOMAIN store THEN Range(store[r].permissions) ELSE {}

NoDuplicates(seq) ==
  \A i, j \in 1..Len(seq) : seq[i] = seq[j] => i = j

IsResolve == call.op = "resolveRolePermissions"
IsInherits == call.op = "inheritsFrom"
IsHierarchy == call.op = "getRoleHierarchy"

(***************************************************************************)
(* C1: on an acyclic chain of depth <= maxDepth, resolveRolePermissions    *)
(* returns exactly the union of the direct permissions of the roles that   *)
(* getRoleHierarchy lists for the same role.                               *)
(***************************************************************************)
C1_ResolveIsUnionOverHierarchy ==
  (/\ IsResolve
   /\ ~Cyclic(roles, call.roleName)
   /\ ChainDepth(roles, call.roleName) <= call.maxDepth)
  => LET h == getRoleHierarchy(roles, call.roleName, call.maxDepth)
     IN /\ h.error = NoError
        /\ result.error = NoError
        /\ Range(result.value) =
             UNION {DirectPermissions(roles, x) : x \in Range(h.value)}

C1_Witness ==
  /\ IsResolve
  /\ ~Cyclic(roles, call.roleName)
  /\ ChainDepth(roles, call.roleName) = 2
  /\ call.maxDepth = 2
  /\ DirectPermissions(roles, call.roleName) = {}
  /\ result.error = NoError
  /\ Range(result.value) = {"read", "write"}

(***************************************************************************)
(* C2 as claimed: whenever the walk from the starting role comes back to a *)
(* visited role, resolveRolePermissions and getRoleHierarchy fail with the *)
(* circular-inheritance error.                                             *)
(***************************************************************************)
C2_AlwaysCircularError ==
  ((IsResolve \/ IsHierarchy) /\ Cyclic(roles, call.roleName))
  => result.error = CircularError

(***************************************************************************)
(* C2 amended: on such a graph both functions fail and return nothing;     *)
(* the error is the circular-inheritance error when the revisit happens at *)
(* a depth <= maxDepth, and the depth-exceeded error otherwise (the depth  *)
(* test comes first).                                                      *)
(***************************************************************************)
C2_CycleFails ==
  ((IsResolve \/ IsHierarchy) /\ Cyclic(roles, call.roleName))
  => result.error =
       IF RevisitDepth(roles, call.roleName) <= call.maxDepth
       THEN CircularError ELSE DepthError

C2_Witness ==
  /\ IsResolve
  /\ Cyclic(roles, call.roleName)
  /\ RevisitDepth(roles, call.roleName) = 2
  /\ call.maxDepth = 2
  /\ result.error = CircularError

(***************************************************************************)
(* C3: for an acyclic chain of n stored roles ending in a root,            *)
(* resolveRolePermissions and getRoleHierarchy succeed when                *)
(* n <= maxDepth + 1 and fail with the depth-exceeded error when           *)
(* n >= maxDepth + 2.                                                      *)
(***************************************************************************)
C3_DepthBoundary ==
  LET path == PathFrom(roles, call.roleName)
      n == Len(path)
  IN (/\ IsResolve \/ IsHierarchy
      /\ ~Cyclic(roles, call.roleName)
      /\ Range(path) \subseteq DOMAIN roles)
     => /\ n <= call.maxDepth + 1 => result.error = NoError
        /\ n >= call.maxDepth + 2 => result.error = DepthError

C3_Witness ==
  /\ IsHierarchy
  /\ ~Cyclic(roles, call.roleName)
  /\ Range(PathFrom(roles, call.roleName)) \subseteq DOMAIN roles
  /\ Len(PathFrom(roles, call.roleName)) = 3
  /\ call.maxDepth = 1
  /\ result.error = DepthError

(***************************************************************************)
(* C4: for a role name with no record in the store,                        *)
(* resolveRolePermissions returns the empty list and getRoleHierarchy the  *)
(* one-element list of that name; neither fails.                           *)
(***************************************************************************)
C4_UnknownRole ==
  call.roleName \notin DOMAIN roles =>
    /\ IsResolve => result.error = NoError /\ result.value = <<>>
    /\ IsHierarchy =>
         result.error = NoError /\ result.value = <<call.roleName>>

C4_Witness ==
  /\ IsHierarchy
  /\ call.roleName \notin DOMAIN roles
  /\ DOMAIN roles # {}
  /\ result.value = <<call.roleName>>

(***************************************************************************)
(* C5: the list resolveRolePermissions returns holds each permission once, *)
(* is the same set however the stored permission arrays are ordered, and   *)
(* is the same when the call is made again on the unchanged store.         *)
(***************************************************************************)
\* the orderings of one array
Orderings(s) == {[i \in 1..Len(s) |-> s[f[i]]] : f \in Permutations(1..Len(s))}

\* the stores that differ from store only in the order of the permission
\* arrays of the roles in D
RECURSIVE PermutedOver(_, _)
PermutedOver(store, D) ==
  IF D = {} THEN {store}
  ELSE LET r == CHOOSE x \in D : TRUE
       IN UNION {{[t EXCEPT ![r].permissions = o] :
                    o \in Orderings(store[r].permissions)} :
                 t \in PermutedOver(store, D \ {r})}

PermutedStores(store) == PermutedOver(store, DOMAIN store)

C5_OnceAndOrderFree ==
  IsResolve =>
    /\ result.error = NoError => NoDuplicates(result.value)
    /\ \A t \in PermutedStores(roles) :
         LET o == resolveRolePermissions(t, call.roleName, call.maxDepth)
         IN /\ o.error = result.error
            /\ o.error = NoError => Range(o.value) = Range(result.value)

C5_SameWhenRepeated ==
  (IsResolve /\ call' = call /\ roles' = roles /\ calls' = calls + 1)
  => result' = result

C5_DedupOrderRepeat ==
  []C5_OnceAndOrderFree /\ [][C5_SameWhenRepeated]_vars

C5_Witness ==
  /\ IsResolve
  /\ calls = 2
  /\ call.roleName \in DOMAIN roles
  /\ roles[call.roleName].permissions = <<"read", "read", "write">>
  /\ Parent(roles, call.roleName) \in DOMAIN roles
  /\ roles[Parent(roles, call.roleName)].permissions = <<"write", "read">>
  /\ result.error = NoError
  /\ result.value = <<"read", "write">>

(***************************************************************************)
(* C6: inheritsFrom(adapter, role, role) returns false for every role and  *)
(* every role graph, also when the role names itself as parent or lies on  *)
(* a cycle.                                                                *)
(***************************************************************************)
C6_NeverInheritsFromSelf ==
  (IsInherits /\ call.parentRole = call.roleName) => result.value = FALSE

(***************************************************************************)
(* C7: when getRoleHierarchy(A) succeeds and lists C at a position other   *)
(* than the first, inheritsFrom(A, C) with the same maxDepth returns true. *)
(***************************************************************************)
C7_ListedAncestorInherits ==
  IsInherits =>
    LET h == getRoleHierarchy(roles, call.roleName, call.maxDepth)
    IN (/\ h.error = NoError
        /\ \E i \in 2..Len(h.value) : h.value[i] = call.parentRole)
       => result.error = NoError /\ result.value = TRUE

C7_Witness ==
  /\ IsInherits
  /\ LET h == getRoleHierarchy(roles, call.roleName, call.maxDepth)
     IN /\ h.error = NoError
        /\ Len(h.value) = 3
        /\ h.value[3] = call.parentRole
  /\ result.value = TRUE

(***************************************************************************)
(* C8 as claimed: for two roles that name each other as parent,            *)
(* inheritsFrom(A, B) returns false without raising and                    *)
(* resolveRolePermissions(A) raises the circular-inheritance error.        *)
(***************************************************************************)
Mutual(store, a, b) ==
  /\ a # b
  /\ a \in DOMAIN store /\ store[a].inherits = b
  /\ b \in DOMAIN store /\ store[b].inherits = a

C8_MutualParentsInheritsFalse ==
  /\ (IsInherits /\ Mutual(roles, call.roleName, call.parentRole))
       => result.error = NoError /\ result.value = FALSE
  /\ (IsResolve /\ \E b \in RoleNames : Mutual(roles, call.roleName, b))
       => result.error = CircularError

(***************************************************************************)
(* C8 amended: for two roles that name each other as parent,               *)
(* inheritsFrom(A, B) returns true without raising (B is A's direct        *)
(* parent), and resolveRolePermissions(A) raises: the circular-inheritance *)
(* error when maxDepth >= 2, the depth-exceeded error when maxDepth <= 1   *)
(* (A is met again at depth 2, and the depth test comes first).            *)
(***************************************************************************)
C8_MutualParents ==
  /\ (IsInherits /\ Mutual(roles, call.roleName, call.parentRole))
       => result.error = NoError /\ result.value = TRUE
  /\ (IsResolve /\ \E b \in RoleNames : Mutual(roles, call.roleName, b))
       => result.error =
            IF call.maxDepth >= 2 THEN CircularError ELSE DepthError

C8_Witness ==
  /\ IsResolve
  /\ \E b \in RoleNames : Mutual(roles, call.roleName, b)
  /\ call.maxDepth = 2
  /\ result.error = CircularError

(***************************************************************************)
(* C9 as claimed: every chain getRoleHierarchy returns has length at most  *)
(* maxDepth.                                                               *)
(***************************************************************************)
C9_ChainAtMostMaxDepth ==
  (IsHierarchy /\ result.error = NoError) => Len(result.value) <= call.maxDepth

(***************************************************************************)
(* C9 amended: every chain getRoleHierarchy returns has length at most     *)
(* maxDepth + 1 (the starting role at depth 0 plus maxDepth ancestors).    *)
(***************************************************************************)
C9_ChainAtMostMaxDepthPlusOne ==
  (IsHierarchy /\ result.error = NoError)
  => Len(result.value) <= call.maxDepth + 1

C9_Witness ==
  /\ IsHierarchy
  /\ result.error = NoError
  /\ call.maxDepth = 1
  /\ Len(result.value) = 2

(***************************************************************************)
(* C10: with caching enabled, a withCache call made while the entry a      *)
(* previous call stored under the same key is still there (no clearCache   *)
(* since) and its TTL has not elapsed does not invoke the fetcher, so the  *)
(* two calls fetch once, and it returns the value the first call stored.   *)
(***************************************************************************)
\* caller p starts a withCache call for key k in this step
StartsCall(p, k) ==
  /\ procs[p].pc = "idle"
  /\ procs'[p].pc # "idle"
  /\ procs'[p].key = k

\* key k holds an entry whose expiry lies after the current time
Unexpired(k) ==
  /\ cache.defined
  /\ k \in DOMAIN cache.entries
  /\ cache.entries[k].expires > now

C10_HitStep ==
  \A p \in Procs, k \in CacheKeys :
    (StartsCall(p, k) /\ Unexpired(k))
    => /\ fetches' = fetches
       /\ cache' = cache
       /\ procs'[p].pc = "done"
       /\ procs'[p].result = cache.entries[k].data

C10_SecondCallWithinTtlHits == [][C10_HitStep]_vars

C10_Witness ==
  \E p \in Procs :
    /\ procs[p].pc = "done"
    /\ procs[p].hit
    /\ procs[p].key = "role:admin"
    /\ procs[p].result = "v1"
    /\ fetches["role:admin"] = 1
    /\ "role:admin" \in DOMAIN cache.entries
    /\ cache.entries["role:admin"].expires = DefaultTtl * MsPerSecond
    /\ now = 1000
    /\ \A q \in Procs \ {p} : procs[q].pc = "idle"

(***************************************************************************)
(* C11..C14: invalidation, expiry, failed fetches and the opt-in switch of *)
(* the BaseAdapter cache.                                                  *)
(***************************************************************************)
\* clearCache(k) with a key leaves no entry under k, clearCache() leaves no
\* entry at all
C11_ClearStep ==
  \A k \in CacheKeys \cup {Undefined} :
    (cache.defined /\ ClearCache(k))
    => IF k \in CacheKeys
       THEN /\ k \notin DOMAIN cache'.entries
            /\ \A o \in DOMAIN cache.entries \ {k} :
                 o \in DOMAIN cache'.entries /\ cache'.entries[o] = cache.entries[o]
       ELSE cache'.entries = <<>>

\* a call that finds no entry under its key, or one whose time is up, goes
\* to the fetcher and hands out nothing from the cache
C11_MissStep ==
  \A p \in Procs, k \in CacheKeys :
    (StartsCall(p, k) /\ cache.defined /\ ~Unexpired(k))
    => /\ fetches'[k] = fetches[k] + 1
       /\ procs'[p].pc = "fetching"
       /\ ~procs'[p].hit
       /\ procs'[p].result = Undefined

\* C11: after clearCache(key), after clearCache() without a key, or once the
\* TTL of the entry has elapsed, the next withCache call for the key invokes
\* the fetcher again instead of returning the value that was cached
C11_RefetchAfterInvalidation == [][C11_ClearStep /\ C11_MissStep]_vars

\* "role:admin" was cleared and is being fetched a second time, while the
\* second fetch of "user-role:1" runs over its expired entry
C11_Witness ==
  /\ cache.defined
  /\ "role:admin" \notin DOMAIN cache.entries
  /\ "user-role:1" \in DOMAIN cache.entries
  /\ cache.entries["user-role:1"].expires = 1000
  /\ now = 1000
  /\ fetches = [k \in CacheKeys |-> 2]
  /\ procs[1] = [IdleProc EXCEPT !.pc = "fetching", !.key = "role:admin",
                                 !.stores = TRUE]
  /\ procs[2] = [IdleProc EXCEPT !.pc = "fetching", !.key = "user-role:1",
                                 !.stores = TRUE]

\* a call that ends in one step with a value took it from an entry whose
\* expiry lies strictly after the current time
C12_ReadStep ==
  \A p \in Procs, k \in CacheKeys :
    (StartsCall(p, k) /\ cache.defined /\ procs'[p].pc = "done")
    => /\ k \in DOMAIN cache.entries
       /\ cache.entries[k].expires > now
       /\ procs'[p].result = cache.entries[k].data

\* an entry whose time is up stays as it is, is removed, or is overwritten
\* by the store of a fetch made now
C12_ExpiredEntryStep ==
  \A k \in CacheKeys :
    (cache.defined /\ k \in DOMAIN cache.entries /\ cache.entries[k].expires <= now)
    => \/ k \notin DOMAIN cache'.entries
       \/ cache'.entries[k] = cache.entries[k]
       \/ /\ cache'.entries[k].expires = ExpiresAt(now, cacheConfig)
          /\ \E p \in Procs :
               /\ procs[p].pc = "fetched"
               /\ procs[p].key = k
               /\ cache'.entries[k].data = procs[p].data

\* C12: withCache never returns the data of an entry whose expiry is at or
\* before the current time; such an entry is only overwritten by a fresh
\* fetch or removed, never read
C12_ExpiredNeverServed == [][C12_ReadStep /\ C12_ExpiredEntryStep]_vars

\* at the very millisecond of its expiry the entry is passed over: the call
\* is fetching although the entry is still in the Map
C12_Witness ==
  \E p \in Procs :
    /\ cache.defined
    /\ "role:admin" \in DOMAIN cache.entries
    /\ cache.entries["role:admin"].expires = now
    /\ now = 1000
    /\ procs[p].pc = "fetching"
    /\ procs[p].key = "role:admin"
    /\ fetches["role:admin"] = 2
    /\ \A q \in Procs \ {p} : procs[q].pc = "idle"

\* no entry of the cache holds a failure
C13_NoFailureCached ==
  \A k \in DOMAIN cache.entries : cache.entries[k].data # FetchError

\* the rejection ends the call with the failure and leaves the cache alone
C13_RejectStep ==
  \A p \in Procs :
    FetcherReject(p)
    => /\ cache' = cache
       /\ procs'[p].pc = "done"
       /\ procs'[p].result = FetchError
       /\ ~procs'[p].hit

\* after a failed call the next call for the key, finding no live entry,
\* invokes the fetcher again
C13_RetryStep ==
  \A p \in Procs, q \in Procs, k \in CacheKeys :
    (/\ StartsCall(p, k)
     /\ procs[q].pc = "done" /\ procs[q].key = k /\ procs[q].result = FetchError
     /\ ~Unexpired(k))
    => /\ fetches'[k] = fetches[k] + 1
       /\ procs'[p].pc = "fetching"

\* C13: when the fetch fails, the failure reaches the caller, no cache entry
\* is written or changed for the key, and the next call for the key invokes
\* the fetcher again
C13_FailureNotCached ==
  []C13_NoFailureCached /\ [][C13_RejectStep /\ C13_RetryStep]_vars

\* the first call for "role:admin" has failed, nothing is stored, and the
\* next call is fetching
C13_Witness ==
  /\ cache.defined
  /\ cache.entries = <<>>
  /\ procs[1] = [IdleProc EXCEPT !.pc = "done", !.key = "role:admin",
                                 !.result = FetchError, !.stores = TRUE]
  /\ procs[2] = [IdleProc EXCEPT !.pc = "fetching", !.key = "role:admin",
                                 !.stores = TRUE]
  /\ fetches["role:admin"] = 2

\* without the switch there is no Map and nothing in it
C14_NoMap ==
  cacheConfig.enabled # TRUE => (~cache.defined /\ cache.entries = <<>>)

\* without the switch every call goes to the fetcher, and clearCache changes
\* nothing
C14_DisabledStep ==
  cacheConfig.enabled # TRUE
  => /\ \A p \in Procs, k \in CacheKeys :
          StartsCall(p, k)
          => /\ fetches'[k] = fetches[k] + 1
             /\ procs'[p].pc = "fetching"
             /\ ~procs'[p].stores
     /\ \A p \in Procs :
          (procs[p].pc = "fetching" /\ procs'[p].pc # "fetching")
          => /\ procs'[p].pc = "done"
             /\ procs'[p].result \in {upstream[procs[p].key], FetchError}
     /\ \A k \in ClearArgs : ClearCache(k) => UNCHANGED vars

\* C14: caching is opt-in: for an adapter constructed without enabled = true
\* every withCache call invokes the fetcher, no entry is ever stored, and
\* clearCache has no effect
C14_CachingIsOptIn == []C14_NoMap /\ [][C14_DisabledStep]_vars

\* without the switch the second call for "role:admin" has fetched too, and
\* returns what the backing store holds by now
C14_Witness ==
  \E p \in Procs :
    /\ cacheConfig.enabled = FALSE
    /\ fetches["role:admin"] = 2
    /\ procs[p].pc = "done"
    /\ procs[p].key = "role:admin"
    /\ procs[p].result = "v2"
    /\ ~procs[p].hit

(***************************************************************************)
(* C15..C17: the permission functions over an adapter.                     *)
(***************************************************************************)
\* the role the store assigns to the subject of the call, NullRole for none
AssignedRole == IF request.userId \in DOMAIN users THEN users[request.userId] ELSE NullRole

\* what getRolePermissions of the adapter answers for that role
ListedPermissions == Adapter_getRolePermissions(Here, AssignedRole, "none")

\* C15: hasPermission, hasAnyPermission and hasAllPermissions return false
\* when the subject has no assigned role; otherwise they return membership
\* of the permission, existence of at least one requested permission, and
\* presence of every requested permission in the list getRolePermissions of
\* the adapter returns for the subject's role (and do not return when the
\* adapter does not)
C15_ChecksAgainstListedPermissions ==
  request.op \in {"hasPermission", "hasAnyPermission", "hasAllPermissions"}
  => IF AssignedRole = NullRole THEN response = Settled(FALSE)
     ELSE IF ListedPermissions.status # "returns"
     THEN response.status # "returns"
     ELSE LET held == Range(ListedPermissions.value)
              asked == Range(request.permissions)
          IN /\ response.status = "returns"
             /\ response.value =
                  CASE request.op = "hasPermission" -> request.permission \in held
                    [] request.op = "hasAnyPermission" -> asked \cap held # {}
                    [] request.op = "hasAllPermissions" -> asked \subseteq held

\* hasAnyPermission says true on one permission held out of two asked, over
\* the Prisma adapter
C15_Witness ==
  /\ adapter.kind = "prisma"
  /\ request.op = "hasAnyPermission"
  /\ request.permissions = <<"read", "write">>
  /\ AssignedRole = "user"
  /\ ListedPermissions = Settled(<<"read">>)
  /\ response = Settled(TRUE)

\* the check with an empty list of permissions, for the subject of the call
\* under the assignment u
EmptyListCheck(u) ==
  IF request.op = "hasAnyPermission"
  THEN hasAnyPermission(Handle(adapter, table, u), request.userId, <<>>)
  ELSE hasAllPermissions(Handle(adapter, table, u), request.userId, <<>>)

\* C16: hasAllPermissions(subject, []) and hasAnyPermission(subject, [])
\* each return one fixed boolean that does not depend on the subject's role,
\* including whether the subject has any role at all
C16_EmptyListIsRoleIndependent ==
  (/\ request.op \in {"hasAnyPermission", "hasAllPermissions"}
   /\ request.permissions = <<>>
   /\ response.status = "returns")
  => \A u \in UserTables :
       EmptyListCheck(u).status = "returns" => EmptyListCheck(u) = response

\* the has* check a require function makes, on the arguments of the call
CorrespondingCheck ==
  CASE request.op = "requirePermission" ->
         hasPermission(Here, request.userId, request.permission)
    [] request.op = "requireRole" ->
         hasRole(Here, request.userId, request.role)
    [] request.op = "requireAnyPermission" ->
         hasAnyPermission(Here, request.userId, request.permissions)
    [] request.op = "requireAllPermissions" ->
         hasAllPermissions(Here, request.userId, request.permissions)

\* what the call required, in the order it was given
RequiredNames ==
  CASE request.op = "requirePermission" -> request.permission
    [] request.op = "requireRole" -> request.role
    [] OTHER -> Join(request.permissions)

ErrorPrefixes ==
  {"Permission denied: ", "Role required: ",
   "Permission denied: requires one of ", "Permission denied: requires all of "}

\* C17: each require function returns normally exactly when the has* check
\* it corresponds to returns true for the same arguments, and otherwise
\* fails with an error whose message names the permission(s) or the role
\* that were required (a check that does not return leaves the require
\* function without an outcome of its own)
C17_RequireFollowsCheck ==
  request.op \in {"requirePermission", "requireRole",
                  "requireAnyPermission", "requireAllPermissions"}
  => IF CorrespondingCheck.status # "returns"
     THEN response = CorrespondingCheck
     ELSE /\ (response.status = "returns") <=> CorrespondingCheck.value
          /\ ~CorrespondingCheck.value
             => /\ response.status = "throws"
                /\ \E prefix \in ErrorPrefixes :
                     response.message = prefix \o RequiredNames

\* requireAllPermissions of read and write fails over a role that holds
\* read alone, and its message names both
C17_Witness ==
  /\ request.op = "requireAllPermissions"
  /\ request.permissions = <<"read", "write">>
  /\ AssignedRole = "user"
  /\ ListedPermissions = Settled(<<"read">>)
  /\ response = Thrown("Permission denied: requires all of read, write")

(***************************************************************************)
(* C18..C20: what the shipped adapters return from their stores.           *)
(***************************************************************************)
\* the permissions stored with role r itself
StoredPermissions(r) ==
  IF r \in DOMAIN table THEN Range(table[r].permissions) ELSE {}

\* C18: for every shipped adapter getRolePermissions(role) returns only the
\* role's directly stored permissions, so hasPermission(subject, p) is false
\* when p is held only by an ancestor of the subject's role
C18_DirectPermissionsOnly ==
  /\ (request.op = "getRolePermissions" /\ response.status = "returns")
     => Range(response.value) \subseteq StoredPermissions(request.role)
  /\ (/\ request.op = "hasPermission"
      /\ response.status = "returns"
      /\ AssignedRole # NullRole
      /\ request.permission \notin StoredPermissions(AssignedRole))
     => response.value = FALSE

\* role r is in the store with its soft-delete marker set
SoftDeleted(r) == r \in DOMAIN table /\ table[r].deleted_at = DeletedAt

\* C19: for every shipped adapter findRole(name) reports not-found for a
\* role whose soft-delete marker is set, on every path of the lookup, the
\* fallback query of the Prisma adapter included
C19_SoftDeletedNotFound ==
  (/\ request.op = "findRole"
   /\ SoftDeleted(request.role)
   /\ response.status = "returns")
  => response.value = Null

\* role r is in the store, not soft-deleted, with a parent that is in the
\* store and not soft-deleted either
HasStoredParent(r) ==
  /\ r \in DOMAIN table
  /\ ~SoftDeleted(r)
  /\ Truthy(table[r].inherits)
  /\ table[r].inherits \in DOMAIN table
  /\ ~SoftDeleted(table[r].inherits)

\* C20: for every shipped adapter the record findRole returns for a stored
\* role that has a parent carries the parent's name in inherits, so
\* resolveRolePermissions over the adapter includes the permissions of the
\* role's ancestors
C20_FindRoleCarriesInherits ==
  /\ (/\ request.op = "findRole"
      /\ HasStoredParent(request.role)
      /\ response.status = "returns")
     => /\ response.value # Null
        /\ response.value.inherits = table[request.role].inherits
  /\ (/\ request.op = "resolveRolePermissions"
      /\ HasStoredParent(request.role)
      /\ response.status = "returns")
     => StoredPermissions(table[request.role].inherits) \subseteq Range(response.value)

(***************************************************************************)
(* C21, C22: the middleware.                                               *)
(***************************************************************************)
IsMiddleware == request.op = "middleware"

\* the rules of the call whose key is a prefix of the pathname
MatchingRules ==
  {i \in 1..Len(request.protectedRoutes) :
     StartsWith(request.pathname, request.protectedRoutes[i].key)}

\* among them, the one with the longest key
LongestMatch ==
  CHOOSE i \in MatchingRules :
    \A j \in MatchingRules :
      Len(request.protectedRoutes[j].key) <= Len(request.protectedRoutes[i].key)

DeclaredPublic ==
  /\ rbacConfig.isPublicRoute # Absent
  /\ request.pathname \in rbacConfig.isPublicRoute[1]

UnauthorizedUrl ==
  IF rbacConfig.unauthorizedUrl = Absent THEN "/login"
  ELSE rbacConfig.unauthorizedUrl[1]

ForbiddenUrl ==
  IF rbacConfig.forbiddenUrl = Absent THEN "/forbidden"
  ELSE rbacConfig.forbiddenUrl[1]

\* the role and the permissions the store gives the user of the request
RequestRole ==
  IF request.userId \in DOMAIN users THEN users[request.userId] ELSE NullRole

RequestPermissions ==
  IF RequestRole \in DOMAIN table THEN Range(table[RequestRole].permissions)
  ELSE {}

\* every check configured in the rule passes
ChecksPass(pr) ==
  /\ pr.roles # Absent => RequestRole \in Range(pr.roles[1])
  /\ pr.permissions # Absent => Range(pr.permissions[1]) \subseteq RequestPermissions
  /\ pr.anyPermissions # Absent => Range(pr.anyPermissions[1]) \cap RequestPermissions # {}
  /\ pr.custom # Absent => pr.custom[1]

\* C21: for a request path matched by a protection rule and not declared
\* public, the middleware lets the request through only if getUserId yields
\* a user, that user has a role, and every check configured in the rule
\* passes; otherwise it redirects to unauthorizedUrl when there is no user
\* and to forbiddenUrl in every other case
C21_ProtectedPathNeedsEveryCheck ==
  (IsMiddleware /\ MatchingRules # {} /\ ~DeclaredPublic)
  => response.value =
       IF request.userId = NullUserId
       THEN NextResponse_redirect(UnauthorizedUrl)
       ELSE IF /\ RequestRole # NullRole
               /\ ChecksPass(request.protectedRoutes[LongestMatch].protection)
       THEN NextResponse_next
       ELSE NextResponse_redirect(ForbiddenUrl)

\* C22: when several protection-rule keys are prefixes of the request path,
\* the middleware applies the rule with the longest key and ignores the
\* shorter ones: its answer is the one it gives when the longest rule is the
\* only rule
C22_LongestKeyWins ==
  (IsMiddleware /\ Cardinality(MatchingRules) >= 2)
  => response.value =
       middleware(rbacConfig, Here, request.pathname,
                  <<request.protectedRoutes[LongestMatch]>>, request.userId)

\* the user holds read alone: '/admin' asks nothing, '/admin/users' asks
\* write, and the request for '/admin/users' is refused although '/admin'
\* comes first in the rules
C22_Witness ==
  /\ IsMiddleware
  /\ request.pathname = "/admin/users"
  /\ request.userId = "1"
  /\ RequestRole = "user"
  /\ RequestPermissions = {"read"}
  /\ request.protectedRoutes =
       <<[key |-> "/admin", protection |-> NoProtection],
         [key |-> "/admin/users",
          protection |-> [NoProtection EXCEPT !.anyPermissions = Some(<<"write">>)]]>>
  /\ ~DeclaredPublic
  /\ response.value = NextResponse_redirect(ForbiddenUrl)

(***************************************************************************)
(* C23: the in-memory adapter after any sequence of writes.                *)
(***************************************************************************)
\* what the record of writing calls leaves under name n: the permissions of
\* the last setRole(n, ...), or of the configuration, that no deleteRole(n)
\* and no clear() has followed; Absent without one
RECURSIVE LastWritten(_, _)
LastWritten(log, n) ==
  IF log = <<>> THEN Absent
  ELSE LET last == log[Len(log)]
       IN IF last.op = "setRole" /\ last.name = n THEN Some(last.permissions)
          ELSE IF last.op = "deleteRole" /\ last.name = n THEN Absent
          ELSE IF last.op = "clear" THEN Absent
          ELSE IF last.op = "constructor"
          THEN IF n \in DOMAIN last.config
               THEN Some(last.config[n].permissions) ELSE Absent
          ELSE LastWritten(SubSeq(log, 1, Len(log) - 1), n)

\* findRole and getRolePermissions answer from the last write
C23_ReadsLastWrite ==
  /\ (request.op = "findRole" /\ adapter.kind = "memory")
     => /\ response.status = "returns"
        /\ IF LastWritten(written, request.role) = Absent
           THEN response.value = Null
           ELSE /\ response.value # Null
                /\ response.value.permissions = LastWritten(written, request.role)[1]
  /\ (request.op = "getRolePermissions" /\ adapter.kind = "memory")
     => response =
          Settled(IF LastWritten(written, request.role) = Absent THEN <<>>
                  ELSE LastWritten(written, request.role)[1])

\* deleteRole of a name that is not stored leaves roles and users as they are
C23_DeleteUnknownStep ==
  \A n \in WrittenRoles :
    (n \notin DOMAIN table /\ DeleteRole(n)) => (table' = table /\ users' = users)

\* C23: after any sequence of setRole, deleteRole and clear on an
\* InMemoryAdapter, findRole(n) returns a record with the permissions of the
\* most recent setRole(n, ...) (or the initial configuration) that has not
\* been followed by deleteRole(n) or clear(), and null otherwise;
\* getRolePermissions(n) returns those permissions or the empty list; and
\* deleting a name that is not stored changes nothing
C23_MemoryAdapterReadsItsWrites ==
  []C23_ReadsLastWrite /\ [][C23_DeleteUnknownStep]_vars

\* admin was configured, deleted, set to read and write, then set to
\* nothing: findRole finds it with no permissions
C23_Witness ==
  /\ Len(written) = 4
  /\ written[1].op = "constructor" /\ "admin" \in DOMAIN written[1].config
  /\ written[2] = Written("deleteRole", "admin", <<>>, <<>>)
  /\ written[3] = Written("setRole", "admin", <<"read", "write">>, <<>>)
  /\ written[4] = Written("setRole", "admin", <<>>, <<>>)
  /\ request.op = "findRole"
  /\ request.role = "admin"
  /\ response.value # Null
  /\ response.value.permissions = <<>>

(***************************************************************************)
(* C24: inheritsFrom beyond maxDepth.                                      *)
(***************************************************************************)
\* the role n parent edges above r, Undefined where the chain ends earlier
RECURSIVE AncestorAt(_, _, _)
AncestorAt(store, r, n) ==
  IF n = 0 \/ r = Undefined THEN r
  ELSE AncestorAt(store, Parent(store, r), n - 1)

\* candidate is met by following between one and k parent edges from r
ReachedWithin(store, r, candidate, k) ==
  \E n \in 1..k : AncestorAt(store, r, n) = candidate

\* C24: inheritsFrom(adapter, role, candidate, {maxDepth}) returns false,
\* without raising, whenever candidate is not reached within maxDepth parent
\* edges of role, in particular when candidate is the ancestor exactly
\* maxDepth + 1 edges above role
C24_FalseBeyondMaxDepth ==
  (/\ IsInherits
   /\ ~ReachedWithin(roles, call.roleName, call.parentRole, call.maxDepth))
  => result.error = NoError /\ result.value = FALSE

(***************************************************************************)
(* C25: Over any role graph, including cyclic ones and chains longer than  *)
(* maxDepth, every call of resolveRolePermissions, inheritsFrom and        *)
(* getRoleHierarchy terminates, with a result or an error, after at most   *)
(* maxDepth + 1 findRole lookups.                                          *)
(***************************************************************************)
C25_AtMostMaxDepthPlusOneLookups ==
  (IsResolve \/ IsInherits \/ IsHierarchy)
  => /\ result.error \in {NoError, CircularError, DepthError}
     /\ result.lookups <= call.maxDepth + 1

\* a cycle of three roles walked with maxDepth 2: three lookups, then the
\* depth error at the fourth step
C25_Witness ==
  /\ IsHierarchy
  /\ call.maxDepth = 2
  /\ AncestorAt(roles, call.roleName, 3) = call.roleName
  /\ AncestorAt(roles, call.roleName, 1) # call.roleName
  /\ result.lookups = 3
  /\ result.error = DepthError

(***************************************************************************)
(* C26: clearCache with a key.                                             *)
(***************************************************************************)
\* every entry stored under another key than k is still there, unchanged
OthersKept(k) ==
  \A j \in DOMAIN cache.entries \ {k} :
    /\ j \in DOMAIN cache'.entries
    /\ cache'.entries[j] = cache.entries[j]

\* C26: clearCache(key) called with any key string removes at most the
\* entry stored under exactly that key and leaves every other cache entry
\* (value and expiry) unchanged; only clearCache called with no key removes
\* all entries
C26_ClearWithKeyRemovesOnlyThatKey ==
  [][\A k \in ClearArgs \ {Undefined} : ClearCache(k) => OthersKept(k)]_vars

(***************************************************************************)
(* C27: the expiry withCache stores.                                       *)
(***************************************************************************)
\* the configured ttl in seconds, 300 only when none was configured
ConfiguredTtl ==
  IF cacheConfig.ttl = <<>> THEN 300 ELSE cacheConfig.ttl[1]

\* C27: on a miss or expiry with caching enabled, withCache stores the
\* fetched value with expiry equal to the current time plus the configured
\* ttl in seconds, for every configured ttl value, and uses 300 seconds only
\* when no ttl was configured
C27_ExpiryIsNowPlusConfiguredTtl ==
  [][\A p \in Procs :
       CacheStore(p)
       => cache'.entries[procs[p].key] =
            [data |-> procs[p].data,
             expires |-> now + ConfiguredTtl * 1000]]_vars

(***************************************************************************)
(* C28: two withCache calls for the same key that overlap on a miss.       *)
(***************************************************************************)
\* call q has missed on key k and has not stored yet
MissInFlight(q, k) ==
  /\ procs[q].key = k
  /\ procs[q].stores
  /\ procs[q].pc \in {"fetching", "fetched"}

\* a call that starts while another call's miss on the key is in flight
\* finds no entry either and invokes the fetcher itself
C28_OverlapStep ==
  \A p \in Procs, k \in CacheKeys :
    (/\ WithCacheCall(p, k)
     /\ ~CacheHit(cache, k, now)
     /\ \E q \in Procs \ {p} : MissInFlight(q, k))
    => /\ procs'[p].pc = "fetching"
       /\ fetches'[k] = fetches[k] + 1

\* a call returns what its own fetch gave and leaves that, with its expiry,
\* as the one entry under the key; a call whose fetch completed later has
\* not stored yet
C28_StoreStep ==
  \A p \in Procs :
    CacheStore(p)
    => /\ procs'[p].result = procs[p].data
       /\ cache'.entries =
            MapSet(cache.entries, procs[p].key,
                   [data |-> procs[p].data,
                    expires |-> ExpiresAt(now, cacheConfig)])
       /\ \A q \in Procs \ {p} :
            (procs[q].pc = "fetched" /\ procs[q].key = procs[p].key)
            => /\ Len(microtasks) = 2
               /\ microtasks[2] = q
               /\ procs'[q].pc = "fetched"

\* the fetches complete in some order, and the call whose fetch completed
\* last is the one that stores last
C28_ResumeInOrderStep ==
  \A p \in Procs :
    (FetcherResolve(p) /\ procs[p].stores)
    => /\ microtasks' = Append(microtasks, p)
       /\ procs'[p].data = upstream[procs[p].key]

\* C28: when two withCache calls for the same key overlap on a miss (both
\* check the cache before either stores), both invoke fetch, each returns
\* the value of its own fetch, and once both have completed the cache holds
\* exactly one entry for the key: the value and expiry written by the call
\* whose fetch completed last
C28_OverlappingMisses ==
  /\ [][C28_OverlapStep]_vars
  /\ [][C28_StoreStep]_vars
  /\ [][C28_ResumeInOrderStep]_vars

\* both calls missed on role:admin and fetched, one before and one after
\* the role changed; each has its own value, and the entry is the later one
C28_Witness ==
  /\ fetches["role:admin"] = 2
  /\ procs[1] = [IdleProc EXCEPT !.pc = "done", !.key = "role:admin",
                   !.stores = TRUE, !.data = "v2", !.result = "v2"]
  /\ procs[2] = [IdleProc EXCEPT !.pc = "done", !.key = "role:admin",
                   !.stores = TRUE, !.data = "v1", !.result = "v1"]
  /\ cache.entries["role:admin"].data = "v2"
  /\ DOMAIN cache.entries = {"role:admin"}

(***************************************************************************)
(* C29: Once clearCache(key) has returned after an upstream role change,   *)
(* no withCache(key) call started afterwards returns a value that was      *)
(* fetched before the clearCache, even when another withCache(key) call    *)
(* had its fetch in flight at the moment of the clear.                     *)
(***************************************************************************)
\* a call that starts after the clear is not served the value from before
\* the change
C29_StartStep ==
  \A p \in Procs, k \in CacheKeys :
    (WithCacheCall(p, k) /\ invalidated[k] /\ procs'[p].pc = "done")
    => procs'[p].result # "v1"

\* a fetch that completes after the clear brings the changed value
C29_FetchStep ==
  \A p \in Procs :
    (FetcherResolve(p) /\ invalidated[procs[p].key])
    => upstream[procs[p].key] = "v2"

C29_NothingStaleAfterClear ==
  [][C29_StartStep]_vars /\ [][C29_FetchStep]_vars

(***************************************************************************)
(* C30: MongoDBAdapter.getRolePermissions(role) terminates for every       *)
(* stored role graph, including graphs in which the inherits references    *)
(* form a cycle or a role names itself as parent.                          *)
(***************************************************************************)
C30_GetRolePermissionsTerminates ==
  (response = Pending) ~> (response.status = "returns")

====
